---------------------------- MODULE Spec2Model ----------------------------
(***************************************************************************)
(* A model of the orchestration core of s3xplorer:                         *)
(*   - AWSClient._execute_with_retry      (src/src/core/aws_client.py)     *)
(*   - AWSClient.download_file            (src/src/core/aws_client.py)     *)
(*   - WorkerManager, DownloadWorker      (src/src/ui/workers.py)          *)
(*   - OperationsWindow                   (src/src/ui/operations_window.py)*)
(*   - MainWindow's signal handlers       (src/src/ui/main_window.py)      *)
(***************************************************************************)
EXTENDS Integers, Sequences, FiniteSets, TLC

(***************************************************************************)
(* Bounds of the model.                                                    *)
(***************************************************************************)
MaxRetriesBound == 3
MaxDelayBound == 2
MaxOps == 2
MaxConcurrentBound == 2
MaxCompletions == 3
MaxChunkParts == 4
MaxItems == 3
MaxKeys == 2500
MaxListKeys == 7
MaxPageSize == 2
MaxPagesBound == 3
MaxSets == 2
ExpiresIn == 2

VARIABLES
    \* ---- AWSClient retry configuration (aws_client.py:71-84)
    max_retries, retry_delay, exponential_backoff,
    \* ---- one invocation of AWSClient._execute_with_retry
    rpc,             \* position: "loop", "sleep", "returned", "raised"
    operation_name,  \* kwargs.pop('operation_name', ...)
    retries,         \* local variable retries
    last_exception,  \* local variable last_exception
    outcomes,        \* what each invocation of func did, in order
    sleeps,          \* the delays passed to time.sleep, in order
    returned,        \* the value returned to the caller
    raised,          \* the AWSError raised to the caller
    \* ---- WorkerManager (workers.py:23-98)
    max_concurrent,  \* WorkerManager.max_concurrent = QThreadPool max threads
    active_workers,  \* ids of WorkerManager.active_workers
    \* ---- the DownloadWorker of each operation id (workers.py:285-372)
    wpc,             \* position of the worker, see WorkerPcs
    is_cancelled,    \* BaseWorker._is_cancelled
    file,            \* the file at the worker's save_path
    \* ---- AWSClient, shared by all workers (aws_client.py:65)
    download_stop,   \* AWSClient._download_stop.is_set()
    \* ---- signals queued for the main thread, in order of emission
    signal_queue,
    \* ---- OperationsWindow (operations_window.py:185-194)
    operations,          \* operation id -> operation data
    operation_counters,  \* 'active', 'completed', 'failed'
    cancel_returned,     \* the cancel request made by the last step, if it
                         \* was one: the operation id and what was returned
    completed_timers,    \* ids with a pending single-shot removal timer
    removed,             \* history: what removed each id from operations
    \* ---- the configuration the window reads (config.py:40-43)
    completed_operations_ttl,  \* seconds, 0 = no removal timer
    operations_auto_cleanup,   \* minutes between auto_cleanup runs, 0 = off
    auto_cleanup_enabled,      \* read by auto_cleanup each time it runs
    \* ---- one UploadWorker or DownloadWorker with its transfer
    \*      (workers.py:198-372, aws_client.py:545-769)
    t_kind,          \* "upload" or "download"
    t_size,          \* size in bytes of the file transferred
    t_pc,            \* position of the worker, see TransferPcs
    t_sent,          \* bytes the backend transfer has moved so far
    t_file_size,     \* the worker's self.file_size
    t_cancelled,     \* the worker's _is_cancelled
    t_stop,          \* AWSClient._download_stop.is_set()
    cb_bytes,        \* ProgressCallback.uploaded / .downloaded
    cb_last_percent, \* ProgressCallback.last_percent
    w_bytes,         \* the worker's uploaded_bytes / downloaded_bytes
    w_last_progress, \* the worker's last_progress_value
    emitted,         \* progress values emitted by the worker, in order
    t_false_at,      \* bytes moved when a ProgressCallback call first
                     \* returned False, -1 while none has
    t_success,       \* what upload_file / download_file did: "none",
                     \* "True", "False", "raised"
    \* ---- one UploadDirectoryWorker or DownloadDirectoryWorker
    \*      (workers.py:419-728)
    d_kind,          \* "upload" or "download"
    d_items,         \* the entries below the directory, in the order the
                     \* transfer loop meets them: [kind, size]
    d_pc,            \* position of the worker, see DirPcs
    d_idx,           \* index in d_items of the loop's current entry
    d_total_files,   \* total_files / total_objects
    d_total_size,    \* total_size
    d_done_files,    \* uploaded_files / downloaded_objects
    d_done_size,     \* uploaded_size / downloaded_size
    d_cancelled,     \* the worker's _is_cancelled
    d_stop,          \* AWSClient._download_stop.is_set()
    d_observed,      \* a call of is_cancelled() in the loop returned True
    d_progress,      \* the percentage of the last signals.progress emitted
    d_percent,       \* last_percent of the client's ProgressCallback for
                     \* the entry being transferred
    d_started,       \* indices of the entries whose transfer was started
    d_status,        \* per entry, its copy at the destination: "none",
                     \* "complete", "removed"
    d_failed,        \* index of the entry whose transfer raised, 0 if none
    d_errors,        \* indices named by the error signals emitted, in order
    \* ---- one DeleteDirectoryWorker (workers.py:729-806)
    del_keys,        \* len(objects): the number of keys listed
    del_pc,          \* position of the worker, see DelPcs
    del_i,           \* the loop variable i: keys before the current batch
    del_calls,       \* the batches passed to delete_objects, in order:
                     \* [first, last] positions in the listing
    del_deleted,     \* deleted_objects
    del_cancelled,   \* the worker's _is_cancelled
    del_failed,      \* number of the batch whose call raised, 0 if none
    del_errors,      \* number of error signals emitted
    del_cancel_at,   \* where the worker was when cancel() was called: the
                     \* position of its _execute_with_retry and the number
                     \* of invocations of func so far
    \* ---- one call of AWSClient.list_objects (aws_client.py:459-543)
    l_keys,          \* number of objects the backend holds under the prefix
    l_page_size,     \* AWSClient.page_size
    l_max_pages,     \* AWSClient.max_pages
    l_pc,            \* "idle", "loop", "wait", "returned", "raised"
    l_token,         \* local continuation_token ("None" or a token)
    l_params_token,  \* params['ContinuationToken'] ("absent" or a token)
    l_page_count,    \* local page_count
    l_all_objects,   \* local all_objects: positions of the objects, in order
    l_requests,      \* the ContinuationToken of each request sent, in order
    l_returned,      \* the NextContinuationToken of each response, in order
    l_backend,       \* the backend's meaning of each token it has issued:
                     \* the position of the first object of the next page
    l_marker,        \* the backend holds an object whose key is the queried
                     \* prefix itself; it is the first of the listing
    l_all_prefixes,  \* local all_prefixes: the 'prefix' of each entry
    \* ---- Config and the objects configured from it (config.py:13-93)
    cfg_file,        \* config.json: exists, parses as JSON, its content
    cfg_pc,          \* "idle", "start" (no Config yet), "loaded"
    cfg_config,      \* Config.config, a dict: key -> value
    cfg_client,      \* the settings of the AWSClient constructed, if any
    cfg_manager,     \* max_concurrent of the WorkerManager constructed
    cfg_ttl,         \* auto_remove_after as last read by complete_operation
    cfg_sets,        \* the calls set(key, value) made, in order
    cfg_got,         \* the last call get(key, default) and what it returned
    \* ---- WorkerManager.active_workers and the threads that use it
    \*      (workers.py:23-98)
    m_map,           \* the keys of active_workers
    m_worker,        \* each worker: "none", "pooled", "emitted"
    m_pending,       \* slot invocations not yet run: the thread that will
                     \* run _cleanup_worker, and the worker id
    m_pc,            \* what each thread is doing to the map
    \* ---- AWSClient authentication (aws_client.py:56-63, 173-274)
    a_session,       \* self.session: "None", or what it was made from
    a_s3_client,     \* self.s3_client: "None", or the session it is of
    a_current_profile, \* self.current_profile: "None" or a profile name
    a_pc,            \* "idle", "test" (inside the credential test), "loop"
                     \* (inside loop.exec()), "returned", "raised"
    a_call,          \* the authenticate_* call under way or last made
    a_before,        \* current_profile and s3_client when it was entered
    a_result,        \* what the call returned: "None", "True", "False"
    a_sso_timer,     \* self._sso_timer is running
    a_sso_auth_data, \* self._sso_auth_data is set
    a_sso_completed, \* values sso_completed emitted during the call
    a_elapsed,       \* polling intervals since start_time
    \* ---- the local file system before a download (aws_client.py:642-769)
    save_path_existed, \* per download: a file was at save_path before the call
    \* ---- DeleteDirectoryWorker.run after its listing (workers.py:745-802)
    purge_pc,        \* "idle", "finished", "error", "returned" (cancelled)
    purge_deleted,   \* positions of the objects named in a delete_objects call
    \* ---- the rows of OperationsWindow.operations_table
    op_row,          \* operations[id]['row'] of each tracked operation
    operations_table \* the table: the operation shown in each row, from row 0

retry_vars == <<max_retries, retry_delay, exponential_backoff, rpc,
                operation_name, retries, last_exception, outcomes, sleeps,
                returned, raised>>

window_config == <<completed_operations_ttl, operations_auto_cleanup,
                   auto_cleanup_enabled>>

timer_vars == <<window_config, completed_timers, removed>>

ops_vars == <<max_concurrent, active_workers, wpc, is_cancelled, file,
              download_stop, signal_queue, operations, operation_counters,
              cancel_returned, timer_vars>>

xfer_vars == <<t_kind, t_size, t_pc, t_sent, t_file_size, t_cancelled,
               t_stop, cb_bytes, cb_last_percent, w_bytes, w_last_progress,
               emitted, t_false_at, t_success>>

dir_vars == <<d_kind, d_items, d_pc, d_idx, d_total_files, d_total_size,
              d_done_files, d_done_size, d_cancelled, d_stop, d_observed,
              d_started, d_status, d_failed, d_errors, d_progress,
              d_percent>>

del_vars == <<del_keys, del_pc, del_i, del_calls, del_deleted, del_cancelled,
              del_failed, del_errors, del_cancel_at>>

list_vars == <<l_keys, l_page_size, l_max_pages, l_pc, l_token,
               l_params_token, l_page_count, l_all_objects, l_requests,
               l_returned, l_backend, l_marker, l_all_prefixes>>

cfg_vars == <<cfg_file, cfg_pc, cfg_config, cfg_client, cfg_manager, cfg_ttl,
              cfg_sets, cfg_got>>

\* the variables outside the retry executor and the download pool
map_vars == <<m_map, m_worker, m_pending, m_pc>>

auth_vars == <<a_session, a_s3_client, a_current_profile, a_pc, a_call,
               a_before, a_result,
               a_sso_timer, a_sso_auth_data, a_sso_completed, a_elapsed>>

pre_vars == <<save_path_existed>>
purge_vars == <<purge_pc, purge_deleted>>
row_vars == <<op_row, operations_table>>
more_vars == <<auth_vars, pre_vars, purge_vars, row_vars>>
rest_no_rows == <<xfer_vars, dir_vars, del_vars, list_vars, cfg_vars, map_vars,
                  auth_vars, pre_vars, purge_vars>>

old_vars == <<retry_vars, ops_vars, xfer_vars, dir_vars, del_vars, list_vars,
              cfg_vars, map_vars>>

not_auth == <<old_vars, pre_vars, purge_vars, row_vars>>
not_purge == <<old_vars, auth_vars, pre_vars, row_vars>>

rest_vars == <<xfer_vars, dir_vars, del_vars, list_vars, cfg_vars, map_vars,
               more_vars>>

\* what the steps of each part of the model leave alone
not_xfer == <<retry_vars, ops_vars, dir_vars, del_vars, list_vars,
              cfg_vars, map_vars, more_vars>>

not_dir == <<retry_vars, ops_vars, xfer_vars, del_vars, list_vars,
             cfg_vars, map_vars, more_vars>>

not_del == <<retry_vars, ops_vars, xfer_vars, dir_vars, list_vars,
             cfg_vars, map_vars, more_vars>>

not_list == <<retry_vars, ops_vars, xfer_vars, dir_vars, del_vars,
              cfg_vars, map_vars, more_vars>>

not_cfg == <<retry_vars, ops_vars, xfer_vars, dir_vars, del_vars, list_vars,
             map_vars, more_vars>>

not_map == <<retry_vars, ops_vars, xfer_vars, dir_vars, del_vars, list_vars,
             cfg_vars, more_vars>>

vars == <<retry_vars, ops_vars, rest_vars>>

\* No single transfer is under way
XferIdle ==
    /\ t_kind = "none"
    /\ t_size = 0
    /\ t_pc = "idle"
    /\ t_sent = 0
    /\ t_file_size = 0
    /\ t_cancelled = FALSE
    /\ t_stop = FALSE
    /\ cb_bytes = 0
    /\ cb_last_percent = 0
    /\ w_bytes = 0
    /\ w_last_progress = 0
    /\ emitted = <<>>
    /\ t_false_at = -1
    /\ t_success = "none"

\* No directory transfer is under way
DirIdle ==
    /\ d_kind = "none"
    /\ d_items = <<>>
    /\ d_pc = "idle"
    /\ d_idx = 0
    /\ d_total_files = 0
    /\ d_total_size = 0
    /\ d_done_files = 0
    /\ d_done_size = 0
    /\ d_cancelled = FALSE
    /\ d_stop = FALSE
    /\ d_observed = FALSE
    /\ d_progress = 0
    /\ d_percent = 0
    /\ d_started = {}
    /\ d_status = <<>>
    /\ d_failed = 0
    /\ d_errors = <<>>

\* No directory delete is under way
\* cancel() has not been called
NotCancelled == [rpc |-> "None", attempts |-> 0]

DelIdle ==
    /\ del_cancel_at = NotCancelled
    /\ del_keys = 0
    /\ del_pc = "idle"
    /\ del_i = 0
    /\ del_calls = <<>>
    /\ del_deleted = 0
    /\ del_cancelled = FALSE
    /\ del_failed = 0
    /\ del_errors = 0

\* No listing is under way; page_size and max_pages as set by
\* AWSClient.__init__
ListIdle ==
    /\ l_keys = 0
    /\ l_page_size = 1000
    /\ l_max_pages = 20
    /\ l_pc = "idle"
    /\ l_token = "None"
    /\ l_params_token = "absent"
    /\ l_page_count = 0
    /\ l_all_objects = <<>>
    /\ l_requests = <<>>
    /\ l_returned = <<>>
    /\ l_backend = <<>>
    /\ l_marker = FALSE
    /\ l_all_prefixes = <<>>

\* the empty dict
EmptyDict == <<>>

NotMade == [made |-> FALSE]

CfgIdle ==
    /\ cfg_file = [exists |-> FALSE, valid |-> FALSE, content |-> EmptyDict]
    /\ cfg_pc = "idle"
    /\ cfg_config = EmptyDict
    /\ cfg_client = NotMade
    /\ cfg_manager = NotMade
    /\ cfg_ttl = NotMade
    /\ cfg_sets = <<>>
    /\ cfg_got = NotMade

\* AWSClient.__init__: no session, no client, no profile
AuthIdle ==
    /\ a_session = "None"
    /\ a_s3_client = "None"
    /\ a_current_profile = "None"
    /\ a_pc = "idle"
    /\ a_call = [method |-> "None", arg |-> "None"]
    /\ a_before = [current_profile |-> "None", s3_client |-> "None"]
    /\ a_result = "None"
    /\ a_sso_timer = FALSE
    /\ a_sso_auth_data = FALSE
    /\ a_sso_completed = <<>>
    /\ a_elapsed = 0

\* no download finds a file at its save_path
PreIdle == save_path_existed = [i \in 1..MaxOps |-> FALSE]

PurgeIdle == purge_pc = "idle" /\ purge_deleted = {}

\* OperationsWindow.__init__: an empty table
RowIdle == op_row = <<>> /\ operations_table = <<>>

MoreIdle == AuthIdle /\ PreIdle /\ PurgeIdle /\ RowIdle

MapIdle ==
    /\ m_map = {}
    /\ m_worker = <<>>
    /\ m_pending = <<>>
    /\ m_pc = <<>>

RestIdle ==
    XferIdle /\ DirIdle /\ DelIdle /\ ListIdle /\ CfgIdle /\ MapIdle /\ MoreIdle

(***************************************************************************)
(* AWSError (aws_client.py:25-48): message, code, operation, details.      *)
(* The message of the exception thrown by the n-th invocation of func is   *)
(* modelled by n itself, so that errors of different attempts differ.      *)
(***************************************************************************)
AWSError(message, code, operation, details) ==
    [message |-> message, code |-> code, operation |-> operation,
     details |-> details]

None == [message |-> 0, code |-> "None", operation |-> "None", details |-> <<>>]

\* The error codes _execute_with_retry retries (aws_client.py:115-117).
RetryableCodes ==
    {"SlowDown", "ThrottlingException", "RequestLimitExceeded",
     "RequestTimeout", "InternalError", "ServiceUnavailable",
     "ProvisionedThroughputExceededException"}

\* Error codes the backend is made to answer with in this model.
InputCodes ==
    {"SlowDown", "ServiceUnavailable",
     "NoSuchKey", "AccessDenied", "InvalidArgument"}

OperationNames == {"head_object", "list_objects"}

RetryableAlways(code) == TRUE

Retryable(code) == code \in RetryableCodes

LoopContinuesStrict(r) == r < max_retries

\* while retries <= self.max_retries
LoopContinues(r) == r <= max_retries

DelayOffByOne(r) ==
    IF exponential_backoff THEN retry_delay * (2 ^ r) ELSE retry_delay

\* delay = retry_delay * (2 ** (retries - 1)) / delay = retry_delay
Delay(r) ==
    IF exponential_backoff THEN retry_delay * (2 ^ (r - 1)) ELSE retry_delay

KeepFirstException(old, new) == IF old = None THEN new ELSE old

\* last_exception = AWSError(...)
AssignLastException(old, new) == new

Attempt == Len(outcomes) + 1

Outcome(type, code) == [type |-> type, code |-> code]

RetryConfigInit ==
    /\ max_retries \in 0..MaxRetriesBound
    /\ retry_delay \in 1..MaxDelayBound
    /\ exponential_backoff \in BOOLEAN

RetryCallInit ==
    /\ rpc = "loop"
    /\ operation_name \in OperationNames
    /\ retries = 0
    /\ last_exception = None
    /\ outcomes = <<>>
    /\ sleeps = <<>>
    /\ returned = 0
    /\ raised = None

\* return func(*args, **kwargs): the n-th invocation returns the value n
execute_with_retry_return ==
    /\ UNCHANGED <<ops_vars, rest_vars>>
    /\ rpc = "loop"
    /\ LoopContinues(retries)
    /\ outcomes' = Append(outcomes, Outcome("ok", "None"))
    /\ returned' = Attempt
    /\ rpc' = "returned"
    /\ UNCHANGED <<max_retries, retry_delay, exponential_backoff,
                   operation_name, retries, last_exception, sleeps, raised>>

\* except ClientError as e
execute_with_retry_client_error(code) ==
    /\ UNCHANGED <<ops_vars, rest_vars>>
    /\ rpc = "loop"
    /\ LoopContinues(retries)
    /\ outcomes' = Append(outcomes, Outcome("ClientError", code))
    /\ LET err == AWSError(Attempt, code, operation_name, <<code, Attempt>>)
       IN IF Retryable(code)
          THEN /\ last_exception' = AssignLastException(last_exception, err)
               /\ retries' = retries + 1
               /\ rpc' = "sleep"
               /\ UNCHANGED raised
          ELSE /\ raised' = err
               /\ rpc' = "raised"
               /\ UNCHANGED <<last_exception, retries>>
    /\ UNCHANGED <<max_retries, retry_delay, exponential_backoff,
                   operation_name, sleeps, returned>>

\* except (ConnectionError, TimeoutError) as e
execute_with_retry_connection_error(type) ==
    /\ UNCHANGED <<ops_vars, rest_vars>>
    /\ rpc = "loop"
    /\ LoopContinues(retries)
    /\ outcomes' = Append(outcomes, Outcome(type, "None"))
    /\ last_exception' =
          AssignLastException(last_exception,
                              AWSError(Attempt, "None", operation_name, <<>>))
    /\ retries' = retries + 1
    /\ rpc' = "sleep"
    /\ UNCHANGED <<max_retries, retry_delay, exponential_backoff,
                   operation_name, sleeps, returned, raised>>

\* except Exception as e
execute_with_retry_unexpected ==
    /\ UNCHANGED <<ops_vars, rest_vars>>
    /\ rpc = "loop"
    /\ LoopContinues(retries)
    /\ outcomes' = Append(outcomes, Outcome("Exception", "None"))
    /\ raised' = AWSError(Attempt, "None", operation_name, <<>>)
    /\ rpc' = "raised"
    /\ UNCHANGED <<max_retries, retry_delay, exponential_backoff,
                   operation_name, retries, last_exception, sleeps, returned>>

\* time.sleep(delay), at the end of either retrying except branch
execute_with_retry_sleep ==
    /\ UNCHANGED <<ops_vars, rest_vars>>
    /\ rpc = "sleep"
    /\ sleeps' = Append(sleeps, Delay(retries))
    /\ rpc' = "loop"
    /\ UNCHANGED <<max_retries, retry_delay, exponential_backoff,
                   operation_name, retries, last_exception, outcomes,
                   returned, raised>>

\* the loop condition fails: if last_exception: raise last_exception
execute_with_retry_exhausted ==
    /\ UNCHANGED <<ops_vars, rest_vars>>
    /\ rpc = "loop"
    /\ ~LoopContinues(retries)
    /\ IF last_exception # None
       THEN /\ raised' = last_exception
            /\ rpc' = "raised"
            /\ UNCHANGED returned
       ELSE /\ rpc' = "returned"
            /\ UNCHANGED <<returned, raised>>
    /\ UNCHANGED <<max_retries, retry_delay, exponential_backoff,
                   operation_name, retries, last_exception, outcomes, sleeps>>

(***************************************************************************)
(* Workers, the thread pool, the shared client and the operations window.  *)
(* Every operation of this model is a single-file download, started by     *)
(* MainWindow.handle_download.                                             *)
(***************************************************************************)
Ids == 1..MaxOps

\* config.py: 'completed_operations_ttl': 5
DefaultTtl == 5

\* config.py: 'operations_auto_cleanup': 1
DefaultCleanupInterval == 1

WorkerPcs ==
    {"none",         \* no worker with this id has been created
     "queued",       \* handed to QThreadPool.start, run() not yet entered
     "running",      \* in run(), before aws_client.download_file
     "transfer",     \* inside s3_client.download_file
     "transferred",  \* s3_client.download_file has returned
     "finished",     \* run() returned after signals.finished.emit()
     "failed",       \* run() returned after signals.error.emit(...)
     "returned"}     \* run() returned without emitting a terminal signal

Running == {i \in Ids : wpc[i] \in {"running", "transfer", "transferred"}}

Queued == {i \in Ids : wpc[i] = "queued"}

Ended == {i \in Ids : wpc[i] \in {"finished", "failed", "returned"}}

Min(S) == CHOOSE x \in S : \A y \in S : x <= y

ThreadLimitOffByOne == max_concurrent + 1

\* self.thread_pool.setMaxThreadCount(self.max_concurrent)
ThreadLimit == max_concurrent

NoCancel == [id |-> 0, result |-> "unset"]

\* The file at a save_path is "absent" (never written), "partial",
\* "complete", or "removed" (written, then deleted by os.remove).
LeaveFile(f) == f

\* if os.path.exists(save_path): os.remove(save_path)
RemoveFile(f) == IF f = "absent" THEN "absent" ELSE "removed"

\* the except branches of download_file: os.path.exists(save_path) is true
\* also for a file that was there before the call
RemoveAt(i) ==
    IF save_path_existed[i] THEN "removed" ELSE RemoveFile(file[i])

Signal(sig, i) == [sig |-> sig, id |-> i]

\* OperationsWindow.__init__: self.completed_timers = {}
TimersIdle ==
    /\ completed_timers = {}
    /\ removed = [i \in Ids |-> "no"]

\* A configuration with which the window removes no operation by itself
NoAutoRemoval ==
    /\ completed_operations_ttl = 0
    /\ operations_auto_cleanup = 0
    /\ auto_cleanup_enabled = TRUE

OpsIdle ==
    /\ max_concurrent = 1
    /\ active_workers = {}
    /\ wpc = [i \in Ids |-> "none"]
    /\ is_cancelled = [i \in Ids |-> FALSE]
    /\ file = [i \in Ids |-> "absent"]
    /\ download_stop = FALSE
    /\ signal_queue = <<>>
    /\ operations = <<>>
    /\ operation_counters = [active |-> 0, completed |-> 0, failed |-> 0]
    /\ cancel_returned = NoCancel
    /\ TimersIdle
    /\ NoAutoRemoval

RetryIdle ==
    /\ max_retries = 5
    /\ retry_delay = 1
    /\ exponential_backoff = TRUE
    /\ rpc = "idle"
    /\ operation_name = "None"
    /\ retries = 0
    /\ last_exception = None
    /\ outcomes = <<>>
    /\ sleeps = <<>>
    /\ returned = 0
    /\ raised = None

\* WorkerManager.__init__: max_concurrent comes from the configuration
OpsInit ==
    /\ max_concurrent \in 1..MaxConcurrentBound
    /\ active_workers = {}
    /\ wpc = [i \in Ids |-> "none"]
    /\ is_cancelled = [i \in Ids |-> FALSE]
    /\ file = [i \in Ids |-> "absent"]
    /\ download_stop = FALSE
    /\ signal_queue = <<>>
    /\ operations = <<>>
    /\ operation_counters = [active |-> 0, completed |-> 0, failed |-> 0]
    /\ cancel_returned = NoCancel
    /\ TimersIdle
    /\ NoAutoRemoval

Init == RetryIdle /\ RestIdle /\ OpsInit

\* The same application where a download may find a file at its save_path
OverwriteInit ==
    /\ RetryIdle
    /\ XferIdle /\ DirIdle /\ DelIdle /\ ListIdle /\ CfgIdle /\ MapIdle
    /\ AuthIdle /\ PurgeIdle /\ RowIdle
    /\ save_path_existed \in [Ids -> BOOLEAN]
    /\ OpsInit

---------------------------------------------------------------------------
(* OperationsWindow *)

\* add_operation: self.operations[operation_id] = {..., 'state': 'active'}
NewOperation(type) ==
    [type |-> type, state |-> "active", text |-> "status", progress |-> 0]

\* operation_id = str(uuid.uuid4()): an id no operation has had, the
\* removed ones included; the ids handed out so far are 1..n
NewId ==
    Cardinality(DOMAIN operations)
        + Cardinality({i \in Ids : removed[i] # "no"}) + 1

NeverSchedules(ttl) == FALSE

\* complete_operation: if auto_remove_after > 0
SchedulesRemoval(ttl) == ttl > 0

\* complete_operation: self.completed_timers[operation_id] = timer
ScheduledTimers(i) ==
    IF SchedulesRemoval(completed_operations_ttl)
    THEN completed_timers \cup {i}
    ELSE completed_timers

\* the operations in state completed or failed
Terminal ==
    {i \in DOMAIN operations : operations[i].state \in {"completed", "failed"}}

\* remove_operation for each id of S: del self.operations[operation_id]
RemoveOperations(S) == [j \in DOMAIN operations \ S |-> operations[j]]

\* remove_operation for each id of S: del self.completed_timers[id]
RemoveTimers(S) == completed_timers \ S

RemovedBy(S, by) == [i \in Ids |-> IF i \in S THEN by ELSE removed[i]]

\* add_operation: row = self.operations_table.rowCount();
\* self.operations_table.insertRow(row); self.operations[id] = {'row': row}
AddRow(i) ==
    /\ op_row' = (i :> Len(operations_table)) @@ op_row
    /\ operations_table' = Append(operations_table, i)

KeepRow(r, gone) == r

\* remove_operation: if op['row'] > operation['row']: op['row'] -= 1
ShiftRow(r, gone) == IF r > gone THEN r - 1 ELSE r

\* QTableWidget.removeRow(r): the rows after row r move up by one; nothing
\* happens when the table has no row r
RemoveTableRow(t, r) ==
    IF r + 1 \in 1..Len(t)
    THEN [n \in 1..(Len(t) - 1) |-> IF n <= r THEN t[n] ELSE t[n + 1]]
    ELSE t

\* remove_operation(i) on the rows st = [row, table]
RemoveRow(st, i) ==
    IF i \notin DOMAIN st.row
    THEN st
    ELSE LET gone == st.row[i]
         IN [row |-> [j \in DOMAIN st.row \ {i} |-> ShiftRow(st.row[j], gone)],
             table |-> RemoveTableRow(st.table, gone)]

RECURSIVE RemoveRows(_, _)
\* for row, op_id in operations_to_remove: self.remove_operation(op_id)
RemoveRows(st, order) ==
    IF order = <<>>
    THEN st
    ELSE RemoveRows(RemoveRow(st, Head(order)), Tail(order))

RECURSIVE RowsDescending(_)
\* operations_to_remove.sort(reverse=True) on the pairs (row, op_id)
RowsDescending(S) ==
    IF S = {}
    THEN <<>>
    ELSE LET m == CHOOSE i \in S :
                     \A j \in S : \/ op_row[j] < op_row[i]
                                  \/ op_row[j] = op_row[i] /\ j <= i
         IN <<m>> \o RowsDescending(S \ {m})

RowsAfter(order) ==
    LET st == RemoveRows([row |-> op_row, table |-> operations_table], order)
    IN /\ op_row' = st.row
       /\ operations_table' = st.table

FailedOperation(op, success) ==
    [op EXCEPT !.state = "failed", !.text = "Failed"]

\* complete_operation: the operation after the call
CompletedOperation(op, success) ==
    IF success
    THEN [op EXCEPT !.state = "completed", !.text = "Completed"]
    ELSE [op EXCEPT !.state = "failed", !.text = "Failed"]

\* complete_operation: the counters after the call
CompletedCounters(success) ==
    IF success
    THEN [operation_counters EXCEPT !.active = @ - 1, !.completed = @ + 1]
    ELSE [operation_counters EXCEPT !.active = @ - 1, !.failed = @ + 1]

\* the first operation of self.operations.items() whose type is in types;
\* ids are handed out in increasing order, so dict order is id order
FirstOfType(types) ==
    LET S == {i \in DOMAIN operations : operations[i].type \in types}
    IN IF S = {} THEN 0 ELSE Min(S)

---------------------------------------------------------------------------
(* WorkerManager *)

\* cancel_worker: if worker_id in self.active_workers
CancelWorkerFinds(i) == i \in active_workers

\* WorkerManager.cancel_worker(i): worker.cancel(), and for a download
\* worker aws_client.cancel_download(); returns True, or False when the id
\* is not registered
cancel_worker(i) ==
    IF CancelWorkerFinds(i)
    THEN /\ is_cancelled' = [is_cancelled EXCEPT ![i] = TRUE]
         /\ download_stop' = TRUE
         /\ cancel_returned' = [id |-> i, result |-> "True"]
    ELSE /\ cancel_returned' = [id |-> i, result |-> "False"]
         /\ UNCHANGED <<is_cancelled, download_stop>>

CancelOperationNoStateGuard(i) == i \in DOMAIN operations

\* cancel_operation: the two early returns
CancelOperationProceeds(i) ==
    i \in DOMAIN operations /\ operations[i].state = "active"

---------------------------------------------------------------------------
(* Main thread *)

\* MainWindow.handle_download with one file selected: add_operation,
\* DownloadWorker(...), connect the signals,
\* worker_manager.start_worker(worker, operation_id). With several files
\* selected the handler repeats these steps once per file.
handle_download ==
    /\ NewId \in Ids
    /\ LET i == NewId
       IN /\ operations' = (i :> NewOperation("Download")) @@ operations
          /\ operation_counters' =
                [operation_counters EXCEPT !.active = @ + 1]
          /\ active_workers' = active_workers \cup {i}
          /\ wpc' = [wpc EXCEPT ![i] = "queued"]
          /\ AddRow(i)
    /\ UNCHANGED <<max_concurrent, is_cancelled, file, download_stop,
                   signal_queue>>
    /\ cancel_returned' = NoCancel
    /\ UNCHANGED <<timer_vars, retry_vars, rest_no_rows>>

\* The cancel button: OperationsWindow.cancel_operation(i), whose signal
\* operation_cancelled runs MainWindow.handle_operation_cancel, which calls
\* WorkerManager.cancel_worker(i)
cancel_operation(i) ==
    /\ IF CancelOperationProceeds(i)
       THEN /\ operations' = [operations EXCEPT ![i].text = "Cancelling..."]
            /\ cancel_worker(i)
       ELSE /\ cancel_returned' = [id |-> i, result |-> "None"]
            /\ UNCHANGED <<operations, is_cancelled, download_stop>>
    /\ UNCHANGED <<max_concurrent, active_workers, wpc, file, signal_queue,
                   operation_counters>>
    /\ UNCHANGED <<timer_vars, retry_vars, rest_vars>>

\* OperationsWindow.add_operation called on its own
add_operation ==
    /\ NewId \in Ids
    /\ operations' = (NewId :> NewOperation("Download")) @@ operations
    /\ operation_counters' = [operation_counters EXCEPT !.active = @ + 1]
    /\ AddRow(NewId)
    /\ UNCHANGED <<max_concurrent, active_workers, wpc, is_cancelled, file,
                   download_stop, signal_queue>>
    /\ cancel_returned' = NoCancel
    /\ UNCHANGED <<timer_vars, retry_vars, rest_no_rows>>

\* OperationsWindow.update_progress(i, progress) called on its own
update_progress(i, progress) ==
    /\ i \in DOMAIN operations
    /\ operations' = [operations EXCEPT ![i].progress = progress]
    /\ UNCHANGED <<max_concurrent, active_workers, wpc, is_cancelled, file,
                   download_stop, signal_queue, operation_counters>>
    /\ cancel_returned' = NoCancel
    /\ UNCHANGED <<timer_vars, retry_vars, rest_vars>>

\* OperationsWindow.complete_operation(i, success) called on its own
complete_operation(i, success) ==
    /\ operation_counters.completed + operation_counters.failed < MaxCompletions
    /\ i \in DOMAIN operations
    /\ operations' =
          [operations EXCEPT ![i] = CompletedOperation(operations[i], success)]
    /\ operation_counters' = CompletedCounters(success)
    /\ completed_timers' = ScheduledTimers(i)
    /\ UNCHANGED <<max_concurrent, active_workers, wpc, is_cancelled, file,
                   download_stop, signal_queue>>
    /\ cancel_returned' = NoCancel
    /\ UNCHANGED <<window_config, removed, retry_vars, rest_vars>>

\* The single-shot timer of operation i fires: remove_operation(i), which
\* returns at once when i is not in self.operations
timer_fire(i) ==
    /\ i \in completed_timers
    /\ IF i \in DOMAIN operations
       THEN /\ operations' = RemoveOperations({i})
            /\ removed' = RemovedBy({i}, "timer")
            /\ RowsAfter(<<i>>)
       ELSE UNCHANGED <<operations, removed, row_vars>>
    /\ completed_timers' = RemoveTimers({i})
    /\ UNCHANGED <<max_concurrent, active_workers, wpc, is_cancelled, file,
                   download_stop, signal_queue, operation_counters>>
    /\ cancel_returned' = NoCancel
    /\ UNCHANGED <<window_config, retry_vars, rest_no_rows>>

\* OperationsWindow.remove_operation(i) called on its own, whatever the
\* state of operation i
remove_operation(i) ==
    /\ i \in DOMAIN operations
    /\ operations' = RemoveOperations({i})
    /\ removed' = RemovedBy({i}, "remove_operation")
    /\ RowsAfter(<<i>>)
    /\ completed_timers' = RemoveTimers({i})
    /\ UNCHANGED <<max_concurrent, active_workers, wpc, is_cancelled, file,
                   download_stop, signal_queue, operation_counters>>
    /\ cancel_returned' = NoCancel
    /\ UNCHANGED <<window_config, retry_vars, rest_no_rows>>

\* auto_cleanup_timer, started by __init__ when operations_auto_cleanup > 0,
\* fires: auto_cleanup() returns when auto_cleanup_enabled is false, else
\* removes the completed and failed operations whose end_time is more than
\* auto_cleanup_age minutes ago (S: the operations that are that old)
auto_cleanup(S) ==
    /\ operations_auto_cleanup > 0
    /\ S \subseteq Terminal
    /\ IF auto_cleanup_enabled
       THEN /\ operations' = RemoveOperations(S)
            /\ completed_timers' = RemoveTimers(S)
            /\ removed' = RemovedBy(S, "auto_cleanup")
            /\ RowsAfter(RowsDescending(S))
       ELSE UNCHANGED <<operations, completed_timers, removed, row_vars>>
    /\ UNCHANGED <<max_concurrent, active_workers, wpc, is_cancelled, file,
                   download_stop, signal_queue, operation_counters>>
    /\ cancel_returned' = NoCancel
    /\ UNCHANGED <<window_config, retry_vars, rest_no_rows>>

\* The user presses "Clear Completed": clear_completed() removes every
\* completed and failed operation
clear_completed ==
    /\ operations' = RemoveOperations(Terminal)
    /\ completed_timers' = RemoveTimers(Terminal)
    /\ removed' = RemovedBy(Terminal, "clear_completed")
    /\ RowsAfter(RowsDescending(Terminal))
    /\ UNCHANGED <<max_concurrent, active_workers, wpc, is_cancelled, file,
                   download_stop, signal_queue, operation_counters>>
    /\ cancel_returned' = NoCancel
    /\ UNCHANGED <<window_config, retry_vars, rest_no_rows>>

\* The main thread runs the slots connected to signals.finished of worker
\* i, in the order they were connected: MainWindow.handle_download_finished
\* (completes the first download operation of the window), then
\* WorkerManager._cleanup_worker(i)
deliver_finished ==
    /\ signal_queue # <<>>
    /\ Head(signal_queue).sig = "finished"
    /\ LET i == Head(signal_queue).id
           f == FirstOfType({"Download", "Download Directory"})
       IN /\ IF f # 0
             THEN /\ operations' =
                       [operations EXCEPT
                           ![f] = CompletedOperation(operations[f], TRUE)]
                  /\ operation_counters' = CompletedCounters(TRUE)
                  /\ completed_timers' = ScheduledTimers(f)
             ELSE UNCHANGED <<operations, operation_counters,
                              completed_timers>>
          /\ active_workers' = active_workers \ {i}
    /\ signal_queue' = Tail(signal_queue)
    /\ UNCHANGED <<max_concurrent, wpc, is_cancelled, file, download_stop>>
    /\ cancel_returned' = NoCancel
    /\ UNCHANGED <<window_config, removed, retry_vars, rest_vars>>

\* The slots connected to signals.error of worker i: handle_worker_error
\* (its search `context in op_data.get('type', '')` has an exception object
\* on the left of a string and raises TypeError for the first operation it
\* looks at, so no operation is marked), then _cleanup_worker(i)
deliver_error ==
    /\ signal_queue # <<>>
    /\ Head(signal_queue).sig = "error"
    /\ active_workers' = active_workers \ {Head(signal_queue).id}
    /\ signal_queue' = Tail(signal_queue)
    /\ UNCHANGED <<max_concurrent, wpc, is_cancelled, file, download_stop,
                   operations, operation_counters>>
    /\ cancel_returned' = NoCancel
    /\ UNCHANGED <<timer_vars, retry_vars, rest_vars>>

---------------------------------------------------------------------------
(* DownloadWorker.run, on a pool thread *)

\* QThreadPool runs the oldest queued runnable when fewer than
\* maxThreadCount threads are busy; run() begins: if self.is_cancelled():
\* return
run_start(i) ==
    /\ wpc[i] = "queued"
    /\ i = Min(Queued)
    /\ Cardinality(Running) < ThreadLimit
    /\ wpc' = [wpc EXCEPT ![i] = IF is_cancelled[i] THEN "returned"
                                 ELSE "running"]
    /\ UNCHANGED <<max_concurrent, active_workers, is_cancelled, file,
                   download_stop, signal_queue, operations,
                   operation_counters>>
    /\ cancel_returned' = NoCancel
    /\ UNCHANGED <<timer_vars, retry_vars, rest_vars>>

\* AWSClient.download_file up to the transfer: self._download_stop.clear(),
\* then head_object through _execute_with_retry, which returns (ok) or
\* raises; on a raise the except branch removes save_path and re-raises,
\* and DownloadWorker.run emits signals.error
download_file_begin(i, ok) ==
    /\ wpc[i] = "running"
    /\ download_stop' = FALSE
    /\ IF ok
       THEN /\ wpc' = [wpc EXCEPT ![i] = "transfer"]
            /\ UNCHANGED <<file, signal_queue>>
       ELSE /\ wpc' = [wpc EXCEPT ![i] = "failed"]
            /\ file' = [file EXCEPT ![i] = RemoveAt(i)]
            /\ signal_queue' = Append(signal_queue, Signal("error", i))
    /\ UNCHANGED <<max_concurrent, active_workers, is_cancelled, operations,
                   operation_counters>>
    /\ cancel_returned' = NoCancel
    /\ UNCHANGED <<timer_vars, retry_vars, rest_vars>>

\* s3_client.download_file writes the next part of the file (two parts per
\* file) and calls ProgressCallback.__call__: when the stop event is set it
\* returns False; otherwise it calls DownloadWorker's progress_callback,
\* and when that returns False (the worker is cancelled) it sets the stop
\* event. The transfer library ignores what the callback returns.
download_chunk(i) ==
    /\ wpc[i] = "transfer"
    /\ file' = [file EXCEPT ![i] = IF file[i] = "absent" THEN "partial"
                                   ELSE "complete"]
    /\ wpc' = [wpc EXCEPT ![i] = IF file[i] = "absent" THEN "transfer"
                                 ELSE "transferred"]
    /\ download_stop' = (download_stop \/ is_cancelled[i])
    /\ UNCHANGED <<max_concurrent, active_workers, is_cancelled,
                   signal_queue, operations, operation_counters>>
    /\ cancel_returned' = NoCancel
    /\ UNCHANGED <<timer_vars, retry_vars, rest_vars>>

\* s3_client.download_file raises: the except branch removes save_path and
\* raises AWSError; DownloadWorker.run emits signals.error
download_transfer_error(i) ==
    /\ wpc[i] = "transfer"
    /\ wpc' = [wpc EXCEPT ![i] = "failed"]
    /\ file' = [file EXCEPT ![i] = RemoveAt(i)]
    /\ signal_queue' = Append(signal_queue, Signal("error", i))
    /\ UNCHANGED <<max_concurrent, active_workers, is_cancelled,
                   download_stop, operations, operation_counters>>
    /\ cancel_returned' = NoCancel
    /\ UNCHANGED <<timer_vars, retry_vars, rest_vars>>

\* After s3_client.download_file: if self._download_stop.is_set() the file
\* is removed and download_file returns False, else True. Back in run():
\* if self.is_cancelled() or not success: return; else signals.finished
download_file_return(i) ==
    /\ wpc[i] = "transferred"
    /\ LET success == ~download_stop
       IN /\ file' = [file EXCEPT ![i] = IF success THEN file[i]
                                         ELSE RemoveAt(i)]
          /\ IF is_cancelled[i] \/ ~success
             THEN /\ wpc' = [wpc EXCEPT ![i] = "returned"]
                  /\ UNCHANGED signal_queue
             ELSE /\ wpc' = [wpc EXCEPT ![i] = "finished"]
                  /\ signal_queue' = Append(signal_queue, Signal("finished", i))
    /\ UNCHANGED <<max_concurrent, active_workers, is_cancelled,
                   download_stop, operations, operation_counters>>
    /\ cancel_returned' = NoCancel
    /\ UNCHANGED <<timer_vars, retry_vars, rest_vars>>

Next ==
    \/ handle_download
    \/ \E i \in Ids : cancel_operation(i)
    \/ deliver_finished
    \/ deliver_error
    \/ \E i \in Ids : run_start(i)
    \/ \E i \in Ids, ok \in BOOLEAN : download_file_begin(i, ok)
    \/ \E i \in Ids : download_chunk(i)
    \/ \E i \in Ids : download_transfer_error(i)
    \/ \E i \in Ids : download_file_return(i)

Spec == Init /\ [][Next]_vars

OverwriteSpec == OverwriteInit /\ [][Next]_vars

(***************************************************************************)
(* The operations window on its own: its public methods called in any      *)
(* order by any caller (no worker is registered).                          *)
(***************************************************************************)
WindowInit ==
    /\ RetryIdle
    /\ RestIdle
    /\ max_concurrent = 1
    /\ active_workers = {}
    /\ wpc = [i \in Ids |-> "none"]
    /\ is_cancelled = [i \in Ids |-> FALSE]
    /\ file = [i \in Ids |-> "absent"]
    /\ download_stop = FALSE
    /\ signal_queue = <<>>
    /\ operations = <<>>
    /\ operation_counters = [active |-> 0, completed |-> 0, failed |-> 0]
    /\ cancel_returned = NoCancel
    /\ TimersIdle
    /\ completed_operations_ttl \in {0, DefaultTtl}
    /\ operations_auto_cleanup \in {0, DefaultCleanupInterval}
    /\ auto_cleanup_enabled \in BOOLEAN

WindowNext ==
    \/ add_operation
    \/ \E i \in Ids : update_progress(i, 50)
    \/ \E i \in Ids, success \in BOOLEAN : complete_operation(i, success)
    \/ \E i \in Ids : cancel_operation(i)
    \/ \E i \in Ids : timer_fire(i)
    \/ \E S \in SUBSET Ids : auto_cleanup(S)
    \/ clear_completed

WindowSpec == WindowInit /\ [][WindowNext]_vars

\* The window's methods that add, end or remove an operation, with
\* remove_operation callable for any operation
RowNext ==
    \/ add_operation
    \/ \E i \in Ids, success \in BOOLEAN : complete_operation(i, success)
    \/ \E i \in Ids : timer_fire(i)
    \/ \E S \in SUBSET Ids : auto_cleanup(S)
    \/ clear_completed
    \/ \E i \in Ids : remove_operation(i)

RowSpec == WindowInit /\ [][RowNext]_vars

\* The steps that add an operation to the window, end it or remove it
LifecycleNext ==
    \/ add_operation
    \/ \E i \in Ids, success \in BOOLEAN : complete_operation(i, success)
    \/ \E i \in Ids : cancel_operation(i)
    \/ \E i \in Ids : timer_fire(i)
    \/ \E S \in SUBSET Ids : auto_cleanup(S)
    \/ clear_completed

\* A started single-shot QTimer fires once its interval has passed, as
\* long as the main thread's event loop runs
WindowLiveSpec ==
    /\ WindowInit
    /\ [][LifecycleNext]_vars
    /\ \A i \in Ids : WF_vars(timer_fire(i))

RetryInit == RetryConfigInit /\ RetryCallInit /\ OpsIdle /\ RestIdle

RetryNext ==
    \/ execute_with_retry_return
    \/ \E code \in InputCodes : execute_with_retry_client_error(code)
    \/ \E type \in {"ConnectionError", "TimeoutError"} :
          execute_with_retry_connection_error(type)
    \/ execute_with_retry_unexpected
    \/ execute_with_retry_sleep
    \/ execute_with_retry_exhausted

RetrySpec == RetryInit /\ [][RetryNext]_vars

(***************************************************************************)
(* One file transfer: UploadWorker.run with AWSClient.upload_file, or      *)
(* DownloadWorker.run with AWSClient.download_file. The backend moves the  *)
(* file in parts and calls the client's ProgressCallback after each part;  *)
(* the transfer library ignores what the callback returns.                 *)
(***************************************************************************)
TransferPcs ==
    {"idle",      \* no worker
     "created",   \* worker handed to the pool, run() not entered
     "running",   \* in run(), about to call the client
     "transfer",  \* inside s3_client.upload_file / download_file
     "finished",  \* run() emitted progress 100 and signals.finished
     "returned",  \* run() returned without a terminal signal
     "error"}     \* run() emitted signals.error

Sizes == {0, 1, MaxChunkParts, 2500 * MaxChunkParts}

Min2(a, b) == IF a <= b THEN a ELSE b

\* the backend moves the file in parts of 1/k of its size
PartDivisors == {1, 2, MaxChunkParts}

ReportsAlways(p) == p >= 0

\* s3_client.upload_file / download_file with Callback=progress_tracker:
\* the callback is called with the number of bytes of a part that was
\* moved, so not for a part of no bytes
Reports(p) == p >= 1

\* upload_file's ProgressCallback: self.uploaded * 100 / self.total_size
\* raises ZeroDivisionError when total_size is 0; download_file's has
\* `if self.total_size else 0`
PercentFails(kind, total) == kind = "upload" /\ total = 0

\* int(min(100, transferred * 100 / total_size)) [if self.total_size else 0]
Percent(transferred, total) ==
    IF total = 0 THEN 0 ELSE Min2(100, (transferred * 100) \div total)

NoClamp(p) == p

\* min(99, ...)
Clamp99(p) == Min2(99, p)

\* progress = min(99, int((self.uploaded_bytes * 100) / self.file_size))
Progress(bytes, size) == Clamp99((bytes * 100) \div size)

TransferInit ==
    /\ t_kind \in {"upload", "download"}
    /\ t_size \in Sizes
    /\ t_pc = "created"
    /\ t_sent = 0
    /\ t_file_size = 0
    /\ t_cancelled = FALSE
    /\ t_stop = FALSE
    /\ cb_bytes = 0
    /\ cb_last_percent = 0
    /\ w_bytes = 0
    /\ w_last_progress = 0
    /\ emitted = <<>>
    /\ t_false_at = -1
    /\ t_success = "none"

\* WorkerManager.cancel_worker on the worker: worker.cancel(), and for a
\* download worker aws_client.cancel_download()
transfer_cancel ==
    /\ t_pc \in {"created", "running", "transfer"}
    /\ ~t_cancelled
    /\ t_cancelled' = TRUE
    /\ t_stop' = IF t_kind = "download" THEN TRUE ELSE t_stop
    /\ UNCHANGED <<t_kind, t_size, t_pc, t_sent, t_file_size, cb_bytes,
                   cb_last_percent, w_bytes, w_last_progress, emitted,
                   t_false_at, t_success>>
    /\ UNCHANGED not_xfer

\* run() up to the call of the client: return if cancelled; emit progress
\* 0; read the file size (file_info for an upload, get_object_metadata for
\* a download, which may fail and leaves file_size = 0) and emit progress 0
\* again
transfer_run_begin(metadata_ok) ==
    /\ t_pc = "created"
    /\ t_kind = "upload" => metadata_ok
    /\ IF t_cancelled
       THEN /\ t_pc' = "returned"
            /\ UNCHANGED <<t_file_size, emitted>>
       ELSE /\ t_pc' = "running"
            /\ t_file_size' = IF metadata_ok THEN t_size ELSE 0
            /\ emitted' = IF metadata_ok THEN <<0, 0>> ELSE <<0>>
    /\ UNCHANGED <<t_kind, t_size, t_sent, t_cancelled, t_stop, cb_bytes,
                   cb_last_percent, w_bytes, w_last_progress, t_false_at,
                   t_success>>
    /\ UNCHANGED not_xfer

\* upload_file / download_file up to the backend call; download_file
\* begins with self._download_stop.clear()
transfer_client_begin ==
    /\ t_pc = "running"
    /\ t_pc' = "transfer"
    /\ t_stop' = FALSE
    /\ UNCHANGED <<t_kind, t_size, t_sent, t_file_size, t_cancelled,
                   cb_bytes, cb_last_percent, w_bytes, w_last_progress,
                   emitted, t_false_at, t_success>>
    /\ UNCHANGED not_xfer

\* The backend moves a part of p bytes (1/k of the file) and calls ProgressCallback.__call__
\* (p). For a download the callback returns False at once when the stop
\* event is set. Otherwise it adds p, computes the percentage, and when
\* that exceeds last_percent calls the worker's progress_callback(percent):
\* the worker returns False when cancelled (the download callback then
\* sets the stop event); else it adds its argument to its byte count and,
\* when file_size > 0, emits min(99, ...) if that differs from the last
\* value emitted and 0.2 s have elapsed.
transfer_chunk(k, elapsed) ==
    /\ t_pc = "transfer"
    /\ Reports(t_size \div k)
    /\ t_sent + (t_size \div k) <= t_size
    /\ ~PercentFails(t_kind, t_size)
    /\ t_sent' = t_sent + (t_size \div k)
    /\ LET p       == t_size \div k
           stopped == t_kind = "download" /\ t_stop
           percent == Percent(cb_bytes + p, t_size)
           calls   == ~stopped /\ percent > cb_last_percent
           counts  == calls /\ ~t_cancelled
           bytes   == w_bytes + percent
           emits   == /\ counts
                      /\ t_file_size > 0
                      /\ Progress(bytes, t_file_size) # w_last_progress
                      /\ elapsed
           false   == stopped \/ (calls /\ t_cancelled)
       IN /\ cb_bytes' = IF stopped THEN cb_bytes ELSE cb_bytes + p
          /\ cb_last_percent' = IF calls THEN percent ELSE cb_last_percent
          /\ w_bytes' = IF counts THEN bytes ELSE w_bytes
          /\ w_last_progress' = IF emits THEN Progress(bytes, t_file_size)
                                ELSE w_last_progress
          /\ emitted' = IF emits
                        THEN Append(emitted, Progress(bytes, t_file_size))
                        ELSE emitted
          /\ t_stop' = IF t_kind = "download" /\ calls /\ t_cancelled
                       THEN TRUE ELSE t_stop
          /\ t_false_at' = IF false /\ t_false_at = -1 THEN t_sent + p
                           ELSE t_false_at
    /\ UNCHANGED <<t_kind, t_size, t_pc, t_file_size, t_cancelled, t_success>>
    /\ UNCHANGED not_xfer

\* The backend call raises (or head_object does, before the first part),
\* or the ProgressCallback it calls does: the client raises AWSError and
\* run() emits signals.error
transfer_raise ==
    /\ t_pc = "transfer"
    /\ \/ t_sent < t_size
       \/ \E k \in PartDivisors :
             Reports(t_size \div k) /\ PercentFails(t_kind, t_size)
    /\ t_pc' = "error"
    /\ t_success' = "raised"
    /\ UNCHANGED <<t_kind, t_size, t_sent, t_file_size, t_cancelled, t_stop,
                   cb_bytes, cb_last_percent, w_bytes, w_last_progress,
                   emitted, t_false_at>>
    /\ UNCHANGED not_xfer

\* The backend call returns after the last part. upload_file returns True;
\* download_file returns False when the stop event is set, else True.
\* run(): if self.is_cancelled() or not success: return; else emit
\* progress 100, success and finished
transfer_return ==
    /\ t_pc = "transfer"
    /\ t_sent = t_size
    /\ LET success == t_kind = "upload" \/ ~t_stop
       IN /\ t_success' = IF success THEN "True" ELSE "False"
          /\ IF t_cancelled \/ ~success
             THEN /\ t_pc' = "returned"
                  /\ UNCHANGED emitted
             ELSE /\ t_pc' = "finished"
                  /\ emitted' = Append(emitted, 100)
    /\ UNCHANGED <<t_kind, t_size, t_sent, t_file_size, t_cancelled, t_stop,
                   cb_bytes, cb_last_percent, w_bytes, w_last_progress,
                   t_false_at>>
    /\ UNCHANGED not_xfer

TransferSpecInit ==
    RetryIdle /\ OpsIdle /\ DirIdle /\ DelIdle /\ ListIdle /\ CfgIdle
        /\ MapIdle /\ MoreIdle /\ TransferInit

TransferNext ==
    \/ transfer_cancel
    \/ \E metadata_ok \in BOOLEAN : transfer_run_begin(metadata_ok)
    \/ transfer_client_begin
    \/ \E k \in PartDivisors, elapsed \in BOOLEAN :
          transfer_chunk(k, elapsed)
    \/ transfer_raise
    \/ transfer_return

TransferSpec == TransferSpecInit /\ [][TransferNext]_vars

(***************************************************************************)
(* One directory transfer: UploadDirectoryWorker or                        *)
(* DownloadDirectoryWorker. The entries below the directory are listed in  *)
(* the order in which the transfer loop meets them (for an upload, the     *)
(* depth-first order of _upload_directory_recursive). An entry is          *)
(*   "file"        a regular file (or an object of the listing);           *)
(*   "linked"      a file below a symbolic link to a directory: os.walk    *)
(*                 in _scan_directory does not descend into the link,      *)
(*                 while _upload_directory_recursive does, because         *)
(*                 get_file_info reports is_dir for it;                    *)
(*   "unreadable"  an entry for which get_file_info returns {};            *)
(*   "emptydir"    a directory with no entry: _upload_directory_recursive  *)
(*                 computes its dir_key, calls itself on it, finds nothing *)
(*                 to loop over and returns True.                          *)
(***************************************************************************)
DirPcs ==
    {"idle",      \* no worker
     "created",   \* run() not entered
     "loop",      \* at the top of the transfer loop
     "checked",   \* is_cancelled() returned False for the current entry
     "item",      \* inside upload_file / download_file of the entry
     "finished",  \* run() emitted progress 100 and signals.finished
     "returned",  \* run() returned without a terminal signal
     "error"}     \* run() returned after signals.error

EntryKinds == {"file", "linked", "unreadable"}

Entries ==
    [kind : EntryKinds, size : {1, 2}] \cup {[kind |-> "emptydir", size |-> 0]}

Directories == UNION {[1..n -> Entries] : n \in 0..MaxItems}

RECURSIVE ScanFiles(_, _)
\* _scan_directory: total_files over the entries os.walk yields as files
ScanFiles(items, n) ==
    IF n = 0 THEN 0
    ELSE ScanFiles(items, n - 1) + (IF items[n].kind = "file" THEN 1 ELSE 0)

RECURSIVE ScanSize(_, _)
\* _scan_directory: total_size
ScanSize(items, n) ==
    IF n = 0 THEN 0
    ELSE ScanSize(items, n - 1)
             + (IF items[n].kind = "file" THEN items[n].size ELSE 0)

Max2(a, b) == IF a >= b THEN a ELSE b

\* the percentages of one entry that the client's ProgressCallback passes
\* to the worker's progress_callback
Percents == {50, 100}

\* int(self.uploaded_size * 100 / max(1, self.total_size))
StartProgress(done, total) == (done * 100) \div Max2(1, total)

\* file_uploaded = file_size * progress / 100;
\* int((self.uploaded_size + file_uploaded) * 100 / max(1, self.total_size))
TotalProgress(done, size, progress, total) ==
    (done * 100 + size * progress) \div Max2(1, total)

ContinueOnCancel == FALSE

\* if self.is_cancelled(): return False
StopOnCancel == TRUE

ContinueOnFailure == FALSE

\* except Exception as e: self.signals.error.emit(...); return False
StopOnFailure == TRUE

DirInit ==
    /\ d_kind \in {"upload", "download"}
    /\ d_items \in Directories
    /\ d_kind = "download" =>
           \A n \in 1..Len(d_items) : d_items[n].kind = "file"
    /\ d_pc = "created"
    /\ d_idx = 0
    /\ d_total_files = 0
    /\ d_total_size = 0
    /\ d_done_files = 0
    /\ d_done_size = 0
    /\ d_cancelled = FALSE
    /\ d_stop = FALSE
    /\ d_observed = FALSE
    /\ d_progress = 0
    /\ d_percent = 0
    /\ d_started = {}
    /\ d_status = [n \in 1..Len(d_items) |-> "none"]
    /\ d_failed = 0
    /\ d_errors = <<>>

\* WorkerManager.cancel_worker: worker.cancel(), and cancel_download() for
\* a DownloadDirectoryWorker
dir_cancel ==
    /\ d_pc \in {"created", "loop", "checked", "item"}
    /\ ~d_cancelled
    /\ d_cancelled' = TRUE
    /\ d_stop' = IF d_kind = "download" THEN TRUE ELSE d_stop
    /\ UNCHANGED <<d_kind, d_items, d_pc, d_idx, d_total_files, d_total_size,
                   d_done_files, d_done_size, d_observed, d_started,
                   d_status, d_failed, d_errors>>
    /\ UNCHANGED <<d_progress, d_percent>>
    /\ UNCHANGED not_dir

\* run() up to the loop: return if cancelled; count the files and their
\* sizes (_scan_directory, or the listing of the prefix); with no file,
\* emit progress 100 and finished; return if cancelled
dir_run_begin ==
    /\ d_pc = "created"
    /\ IF d_cancelled
       THEN /\ d_pc' = "returned"
            /\ d_observed' = TRUE
            /\ UNCHANGED <<d_idx, d_total_files, d_total_size>>
       ELSE /\ d_total_files' = ScanFiles(d_items, Len(d_items))
            /\ d_total_size' = ScanSize(d_items, Len(d_items))
            /\ d_pc' = IF ScanFiles(d_items, Len(d_items)) = 0
                       THEN "finished" ELSE "loop"
            /\ d_idx' = 1
            /\ UNCHANGED d_observed
    /\ UNCHANGED <<d_kind, d_items, d_done_files, d_done_size, d_cancelled,
                   d_stop, d_started, d_status, d_failed, d_errors>>
    /\ d_progress' = IF d_cancelled THEN d_progress
                     ELSE IF ScanFiles(d_items, Len(d_items)) = 0 THEN 100
                     ELSE 0
    /\ UNCHANGED d_percent
    /\ UNCHANGED not_dir

\* Top of the loop for the entry d_idx: if self.is_cancelled(): return;
\* an entry without file info is skipped; for an empty directory the
\* recursive call returns True and nothing is sent to the bucket
dir_item_check ==
    /\ d_pc = "loop"
    /\ d_idx <= Len(d_items)
    /\ IF d_cancelled
       THEN /\ d_observed' = TRUE
            /\ d_pc' = IF StopOnCancel THEN "returned" ELSE "checked"
            /\ UNCHANGED d_idx
       ELSE /\ IF d_items[d_idx].kind \in {"unreadable", "emptydir"}
               THEN d_idx' = d_idx + 1 /\ UNCHANGED d_pc
               ELSE d_pc' = "checked" /\ UNCHANGED d_idx
            /\ UNCHANGED d_observed
    /\ UNCHANGED <<d_kind, d_items, d_total_files, d_total_size,
                   d_done_files, d_done_size, d_cancelled, d_stop,
                   d_started, d_status, d_failed, d_errors>>
    /\ UNCHANGED <<d_progress, d_percent>>
    /\ UNCHANGED not_dir

\* The worker calls upload_file / download_file for the entry;
\* download_file begins with self._download_stop.clear()
dir_item_start ==
    /\ d_pc = "checked"
    /\ d_pc' = "item"
    /\ d_started' = d_started \cup {d_idx}
    /\ d_stop' = IF d_kind = "download" THEN FALSE ELSE d_stop
    /\ UNCHANGED <<d_kind, d_items, d_idx, d_total_files, d_total_size,
                   d_done_files, d_done_size, d_cancelled, d_observed,
                   d_status, d_failed, d_errors>>
    /\ d_progress' = StartProgress(d_done_size, d_total_size)
    /\ d_percent' = 0
    /\ UNCHANGED not_dir

\* The client's ProgressCallback sees the percentage of the entry rise to
\* p. A download's begins with if self.stop_event.is_set(): return False.
\* Then it calls the worker's progress_callback(p): return False when
\* cancelled (the download's ProgressCallback then sets the stop event),
\* else emit the percentage of the whole directory
dir_item_progress(p) ==
    /\ d_pc = "item"
    /\ p > d_percent
    /\ ~(d_kind = "download" /\ d_stop)
    /\ d_percent' = p
    /\ IF d_cancelled
       THEN /\ d_stop' = IF d_kind = "download" THEN TRUE ELSE d_stop
            /\ UNCHANGED d_progress
       ELSE /\ d_progress' = TotalProgress(d_done_size, d_items[d_idx].size,
                                           p, d_total_size)
            /\ UNCHANGED d_stop
    /\ UNCHANGED <<d_kind, d_items, d_pc, d_idx, d_total_files, d_total_size,
                   d_done_files, d_done_size, d_cancelled, d_observed,
                   d_started, d_status, d_failed, d_errors>>
    /\ UNCHANGED not_dir

\* The client call returns. A download whose stop event is set (by
\* cancel_download, or by its ProgressCallback when the worker's callback
\* returned False) has removed its file and returns False; the worker
\* ignores the value returned and counts the entry as done
dir_item_ok ==
    /\ d_pc = "item"
    /\ d_status' = [d_status EXCEPT ![d_idx] =
                       IF d_kind = "download" /\ (d_stop \/ d_cancelled)
                       THEN "removed" ELSE "complete"]
    /\ d_done_files' = d_done_files + 1
    /\ d_done_size' = d_done_size + d_items[d_idx].size
    /\ d_idx' = d_idx + 1
    /\ d_pc' = "loop"
    /\ UNCHANGED <<d_kind, d_items, d_total_files, d_total_size, d_cancelled,
                   d_stop, d_observed, d_started, d_failed, d_errors>>
    /\ UNCHANGED <<d_progress, d_percent>>
    /\ UNCHANGED not_dir

\* The client call raises: signals.error.emit(f"Error uploading {item}:
\* ..."), return False (upload) / return (download)
dir_item_fail ==
    /\ d_pc = "item"
    /\ d_failed' = d_idx
    /\ d_errors' = Append(d_errors, d_idx)
    /\ IF StopOnFailure
       THEN d_pc' = "error" /\ UNCHANGED d_idx
       ELSE d_pc' = "loop" /\ d_idx' = d_idx + 1
    /\ UNCHANGED <<d_kind, d_items, d_total_files, d_total_size,
                   d_done_files, d_done_size, d_cancelled, d_stop,
                   d_observed, d_started, d_status>>
    /\ UNCHANGED <<d_progress, d_percent>>
    /\ UNCHANGED not_dir

\* After the last entry: if self.is_cancelled() [or not success]: return;
\* else emit progress 100, success and finished
dir_loop_end ==
    /\ d_pc = "loop"
    /\ d_idx > Len(d_items)
    /\ d_pc' = IF d_cancelled THEN "returned" ELSE "finished"
    /\ d_observed' = (d_observed \/ d_cancelled)
    /\ UNCHANGED <<d_kind, d_items, d_idx, d_total_files, d_total_size,
                   d_done_files, d_done_size, d_cancelled, d_stop,
                   d_started, d_status, d_failed, d_errors>>
    /\ d_progress' = IF d_cancelled THEN d_progress ELSE 100
    /\ UNCHANGED d_percent
    /\ UNCHANGED not_dir

DirSpecInit ==
    RetryIdle /\ OpsIdle /\ XferIdle /\ DelIdle /\ ListIdle /\ CfgIdle
        /\ MapIdle /\ MoreIdle /\ DirInit

DirNext ==
    \/ dir_cancel
    \/ dir_run_begin
    \/ dir_item_check
    \/ dir_item_start
    \/ \E p \in Percents : dir_item_progress(p)
    \/ dir_item_ok
    \/ dir_item_fail
    \/ dir_loop_end

DirSpec == DirSpecInit /\ [][DirNext]_vars

(***************************************************************************)
(* DeleteDirectoryWorker.run: the listed keys are deleted in batches, each *)
(* batch by one call of _execute_with_retry(delete_objects, ...), which    *)
(* returns or raises.                                                      *)
(***************************************************************************)
DelPcs ==
    {"idle",      \* no worker
     "created",   \* run() not entered
     "loop",      \* at the top of the batch loop
     "call",      \* inside _execute_with_retry(delete_objects, ...)
     "finished",  \* run() emitted progress 100 and signals.finished
     "returned",  \* run() returned without a terminal signal
     "error"}     \* run() returned after signals.error

\* batch_size = 1000
batch_size == 1000

BatchUnbounded(i) == [first |-> i + 1, last |-> del_keys]

\* batch = objects[i:i+batch_size]
Batch(i) == [first |-> i + 1, last |-> Min2(i + batch_size, del_keys)]

DelInit ==
    /\ del_cancel_at = NotCancelled
    /\ del_keys \in 0..MaxKeys
    /\ del_pc = "created"
    /\ del_i = 0
    /\ del_calls = <<>>
    /\ del_deleted = 0
    /\ del_cancelled = FALSE
    /\ del_failed = 0
    /\ del_errors = 0

\* WorkerManager.cancel_worker: worker.cancel()
del_cancel ==
    /\ del_pc \in {"created", "loop", "call"}
    /\ ~del_cancelled
    /\ del_cancelled' = TRUE
    /\ del_cancel_at' = [rpc |-> rpc, attempts |-> Len(outcomes)]
    /\ UNCHANGED <<del_keys, del_pc, del_i, del_calls, del_deleted,
                   del_failed, del_errors>>
    /\ UNCHANGED not_del

\* run() up to the loop: return if cancelled; list the prefix; with no
\* object emit progress 100 and finished; return if cancelled
del_run_begin ==
    /\ del_pc = "created"
    /\ del_pc' = IF del_cancelled THEN "returned"
                 ELSE IF del_keys = 0 THEN "finished" ELSE "loop"
    /\ UNCHANGED <<del_keys, del_i, del_calls, del_deleted, del_cancelled,
                   del_failed, del_errors>>
    /\ UNCHANGED <<del_cancel_at, not_del>>

\* for i in range(0, len(objects), batch_size): return if cancelled; else
\* call delete_objects with objects[i:i+batch_size]
del_batch_call ==
    /\ del_pc = "loop"
    /\ del_i < del_keys
    /\ IF del_cancelled
       THEN del_pc' = "returned" /\ UNCHANGED del_calls
       ELSE del_pc' = "call" /\ del_calls' = Append(del_calls, Batch(del_i))
    /\ UNCHANGED <<del_keys, del_i, del_deleted, del_cancelled, del_failed,
                   del_errors>>
    /\ UNCHANGED <<del_cancel_at, not_del>>

\* The call returns: self.deleted_objects += len(batch); next i
del_batch_ok ==
    /\ del_pc = "call"
    /\ LET batch == del_calls[Len(del_calls)]
       IN del_deleted' = del_deleted + (batch.last - batch.first + 1)
    /\ del_i' = del_i + batch_size
    /\ del_pc' = "loop"
    /\ UNCHANGED <<del_keys, del_calls, del_cancelled, del_failed, del_errors>>
    /\ UNCHANGED <<del_cancel_at, not_del>>

\* The call raises: signals.error.emit(...); return
del_batch_fail ==
    /\ del_pc = "call"
    /\ del_failed' = Len(del_calls)
    /\ del_errors' = del_errors + 1
    /\ del_pc' = "error"
    /\ UNCHANGED <<del_keys, del_i, del_calls, del_deleted, del_cancelled>>
    /\ UNCHANGED <<del_cancel_at, not_del>>

\* After the last batch: return if cancelled; else emit progress 100,
\* success and finished
del_loop_end ==
    /\ del_pc = "loop"
    /\ del_i >= del_keys
    /\ del_pc' = IF del_cancelled THEN "returned" ELSE "finished"
    /\ UNCHANGED <<del_keys, del_i, del_calls, del_deleted, del_cancelled,
                   del_failed, del_errors>>
    /\ UNCHANGED <<del_cancel_at, not_del>>

DelSpecInit ==
    RetryIdle /\ OpsIdle /\ XferIdle /\ DirIdle /\ ListIdle /\ CfgIdle
        /\ MapIdle /\ MoreIdle /\ DelInit

DelNext ==
    \/ del_cancel
    \/ del_run_begin
    \/ del_batch_call
    \/ del_batch_ok
    \/ del_batch_fail
    \/ del_loop_end

DelSpec == DelSpecInit /\ [][DelNext]_vars

(***************************************************************************)
(* DeleteDirectoryWorker.run with the inside of each call of               *)
(* _execute_with_retry(delete_objects, ...): the invocations of            *)
(* delete_objects, their outcomes and the sleeps between them, while       *)
(* cancel() may be called at any point.                                    *)
(***************************************************************************)
\* the numbers of keys listed: none, one batch, two batches
RetryKeys == {0, 1, batch_size + 1}

DelRetryInit ==
    /\ max_retries \in 0..(MaxRetriesBound - 1)
    /\ retry_delay = 1
    /\ exponential_backoff \in BOOLEAN
    /\ rpc = "idle"
    /\ operation_name = "None"
    /\ retries = 0
    /\ last_exception = None
    /\ outcomes = <<>>
    /\ sleeps = <<>>
    /\ returned = 0
    /\ raised = None
    /\ DelInit
    /\ del_keys \in RetryKeys

\* for i in range(0, len(objects), batch_size): return if cancelled; else
\* self.aws_client._execute_with_retry(delete_objects, ...,
\* operation_name="delete_objects") is entered
del_batch_enter ==
    /\ del_pc = "loop"
    /\ del_i < del_keys
    /\ IF del_cancelled
       THEN /\ del_pc' = "returned"
            /\ UNCHANGED <<del_calls, retry_vars>>
       ELSE /\ del_pc' = "call"
            /\ del_calls' = Append(del_calls, Batch(del_i))
            /\ rpc' = "loop"
            /\ operation_name' = "delete_objects"
            /\ retries' = 0
            /\ last_exception' = None
            /\ outcomes' = <<>>
            /\ sleeps' = <<>>
            /\ returned' = 0
            /\ raised' = None
            /\ UNCHANGED <<max_retries, retry_delay, exponential_backoff>>
    /\ UNCHANGED <<del_keys, del_i, del_deleted, del_cancelled, del_failed,
                   del_errors, del_cancel_at>>
    /\ UNCHANGED <<ops_vars, xfer_vars, dir_vars, list_vars, cfg_vars,
                   map_vars, more_vars>>

\* _execute_with_retry has returned
del_batch_returned ==
    /\ rpc = "returned"
    /\ del_batch_ok

\* _execute_with_retry has raised
del_batch_raised ==
    /\ rpc = "raised"
    /\ del_batch_fail

DelRetrySpecInit ==
    OpsIdle /\ XferIdle /\ DirIdle /\ ListIdle /\ CfgIdle /\ MapIdle /\ MoreIdle
        /\ DelRetryInit

DelRetryNext ==
    \/ del_cancel
    \/ del_run_begin
    \/ del_batch_enter
    \/ execute_with_retry_return
    \/ \E code \in InputCodes : execute_with_retry_client_error(code)
    \/ \E type \in {"ConnectionError", "TimeoutError"} :
          execute_with_retry_connection_error(type)
    \/ execute_with_retry_unexpected
    \/ execute_with_retry_sleep
    \/ execute_with_retry_exhausted
    \/ del_batch_returned
    \/ del_batch_raised
    \/ del_loop_end

DelRetrySpec == DelRetrySpecInit /\ [][DelRetryNext]_vars

(***************************************************************************)
(* AWSClient.list_objects: one call. The backend holds l_keys objects      *)
(* under the prefix, at positions 1..l_keys of its listing order, and      *)
(* answers a request with the next page_size of them; when more remain it  *)
(* sets IsTruncated and returns a continuation token of its choice, whose  *)
(* meaning (where the next page begins) only the backend knows.            *)
(***************************************************************************)
Tokens == {"t1", "t2"}

StaleParamsToken(old, new) == IF old = "absent" THEN new ELSE old

\* if continuation_token: params['ContinuationToken'] = continuation_token
NextParamsToken(old, new) == new

PageLimitOffByOne(count) == count > l_max_pages

\* page_count >= self.max_pages
PageLimitReached(count) == count >= l_max_pages

\* the queried prefix, a directory below it, an object below it
Prefix == "p/"

SubPrefix == "p/d/"

ObjectKey == "p/a"

\* the CommonPrefixes the backend is made to answer a request with
CommonPrefixes == {<<>>, <<Prefix, SubPrefix>>}

\* obj.get('Key', '') of the object at position n of the listing
KeyAt(n) == IF l_marker /\ n = 1 THEN Prefix ELSE ObjectKey

\* if prefix_value and prefix_value != prefix
KeepPrefix(prefix_value, prefix) == prefix_value # "" /\ prefix_value # prefix

\* for prefix_obj in response.get('CommonPrefixes', []): ... append
KeptPrefixes(cps, prefix) == SelectSeq(cps, LAMBDA v : KeepPrefix(v, prefix))

ListInit ==
    /\ l_keys \in 0..MaxListKeys
    /\ l_page_size \in 1..MaxPageSize
    /\ l_max_pages \in 1..MaxPagesBound
    /\ l_pc = "loop"
    /\ l_token = "None"
    /\ l_params_token = "absent"
    /\ l_page_count = 0
    /\ l_all_objects = <<>>
    /\ l_requests = <<>>
    /\ l_returned = <<>>
    /\ l_backend = [t \in Tokens |-> 0]
    /\ l_marker \in BOOLEAN
    /\ l_marker => l_keys >= 1
    /\ l_all_prefixes = <<>>

\* Top of the while loop: page_count += 1; put the continuation token, if
\* any, into params; call _execute_with_retry(list_objects_v2, **params)
list_request ==
    /\ l_pc = "loop"
    /\ l_page_count' = l_page_count + 1
    /\ l_params_token' = IF l_token # "None"
                         THEN NextParamsToken(l_params_token, l_token)
                         ELSE l_params_token
    /\ l_requests' = Append(l_requests, l_params_token')
    /\ l_pc' = "wait"
    /\ UNCHANGED <<l_keys, l_page_size, l_max_pages, l_token, l_all_objects,
                   l_returned, l_backend, l_marker, l_all_prefixes>>
    /\ UNCHANGED not_list

\* The call returns the page the request asked for; when the page is
\* truncated the backend issues the token tok for the page after it. The
\* client appends the Contents to all_objects and the CommonPrefixes cps
\* other than '' and the queried prefix to all_prefixes, then leaves the
\* loop when
\* the page is not truncated or page_count >= max_pages, else takes
\* NextContinuationToken
list_response(tok, cps) ==
    /\ l_pc = "wait"
    /\ l_all_prefixes' = l_all_prefixes \o KeptPrefixes(cps, Prefix)
    /\ LET req       == l_requests[Len(l_requests)]
           first     == IF req = "absent" THEN 1 ELSE l_backend[req]
           last      == Min2(first + l_page_size - 1, l_keys)
           truncated == last < l_keys
           next      == IF truncated THEN tok ELSE "None"
       IN /\ l_all_objects' =
                l_all_objects \o [n \in 1..(last - first + 1) |-> first + n - 1]
          /\ l_backend' = IF truncated
                          THEN [l_backend EXCEPT ![tok] = last + 1]
                          ELSE l_backend
          /\ l_returned' = Append(l_returned, next)
          /\ IF ~truncated \/ PageLimitReached(l_page_count)
             THEN l_pc' = "returned" /\ UNCHANGED l_token
             ELSE l_pc' = "loop" /\ l_token' = next
    /\ UNCHANGED <<l_keys, l_page_size, l_max_pages, l_params_token,
                   l_page_count, l_requests, l_marker>>
    /\ UNCHANGED not_list

\* _execute_with_retry raises: list_objects raises AWSError
list_raise ==
    /\ l_pc = "wait"
    /\ l_pc' = "raised"
    /\ UNCHANGED <<l_keys, l_page_size, l_max_pages, l_token, l_params_token,
                   l_page_count, l_all_objects, l_requests, l_returned,
                   l_backend, l_marker, l_all_prefixes>>
    /\ UNCHANGED not_list

ListSpecInit ==
    RetryIdle /\ OpsIdle /\ XferIdle /\ DirIdle /\ DelIdle /\ CfgIdle
        /\ MapIdle /\ MoreIdle /\ ListInit

ListNext ==
    \/ list_request
    \/ \E tok \in Tokens, cps \in CommonPrefixes : list_response(tok, cps)
    \/ list_raise

ListSpec == ListSpecInit /\ [][ListNext]_vars

\* the objects of result['objects']
Listed == {l_all_objects[n] : n \in 1..Len(l_all_objects)}

PurgeOutcomes == {"ok", "raised", "cancelled"}

\* DeleteDirectoryWorker.run once list_objects(bucket, prefix, delimiter='')
\* has returned: delete_objects for the listed objects in batches of
\* batch_size (one batch at these sizes), then progress 100, success and
\* finished; a raising batch emits error, a cancelled worker returns
delete_directory_run(outcome) ==
    /\ l_pc = "returned"
    /\ purge_pc = "idle"
    /\ Len(l_all_objects) <= batch_size
    /\ purge_deleted' = IF outcome = "ok" THEN Listed ELSE {}
    /\ purge_pc' = CASE outcome = "ok" -> "finished"
                      [] outcome = "raised" /\ Listed # {} -> "error"
                      [] outcome = "raised" /\ Listed = {} -> "finished"
                      [] outcome = "cancelled" -> "returned"
    /\ UNCHANGED list_vars
    /\ UNCHANGED not_purge

PurgeNext ==
    \/ list_request
    \/ \E tok \in Tokens, cps \in CommonPrefixes : list_response(tok, cps)
    \/ list_raise
    \/ \E outcome \in PurgeOutcomes : delete_directory_run(outcome)

PurgeSpec == ListSpecInit /\ [][PurgeNext]_vars

(***************************************************************************)
(* Config (config.py) and the objects that read their parameters from it.  *)
(* A dict is a function from the keys it holds to their values; values are *)
(* numbers, True and False being 1 and 0, and None being NoneValue.        *)
(***************************************************************************)
NoneValue == 0 - 1

\* the options of the configuration surface, under the names the code reads
Options ==
    {"page_size", "max_pages", "max_retries", "retry_delay",
     "exponential_backoff", "max_concurrent_operations",
     "completed_operations_ttl"}

\* a key that is no option and has no default
OtherKey == "test_key"

\* the value config.json gives an option when it holds it
FileValue ==
    [page_size |-> 2, max_pages |-> 3, max_retries |-> 0, retry_delay |-> 2,
     exponential_backoff |-> 0, max_concurrent_operations |-> 2,
     completed_operations_ttl |-> 0]

\* Config.defaults, restricted to the options
defaults == [max_concurrent_operations |-> 5, completed_operations_ttl |-> 5]

\* dict.get(key, default)
DictGet(dict, key, default) ==
    IF key \in DOMAIN dict THEN dict[key] ELSE default

DictSetOnly(dict, key, value) == [k \in {key} |-> value]

\* dict[key] = value
DictSet(dict, key, value) ==
    [k \in DOMAIN dict \cup {key} |-> IF k = key THEN value ELSE dict[k]]

\* _load_config: for key, value in self.defaults.items():
\*                   if key not in config: config[key] = value
WithDefaults(dict) ==
    [k \in DOMAIN dict \cup DOMAIN defaults |->
        IF k \in DOMAIN dict THEN dict[k] ELSE defaults[k]]

\* Config.get(key, default)
get(key, default) == DictGet(cfg_config, key, default)

\* config.json before the program starts: missing, unreadable, or holding
\* any subset of the options
ConfigFiles ==
    {[exists |-> FALSE, valid |-> FALSE, content |-> EmptyDict]}
        \cup {[exists |-> TRUE, valid |-> v,
               content |-> [k \in S |-> FileValue[k]]] :
                 v \in BOOLEAN, S \in SUBSET Options}

ConfigInit ==
    /\ cfg_file \in ConfigFiles
    /\ cfg_file.valid \/ cfg_file.content = EmptyDict
    /\ cfg_pc = "start"
    /\ cfg_config = EmptyDict
    /\ cfg_client = NotMade
    /\ cfg_manager = NotMade
    /\ cfg_ttl = NotMade
    /\ cfg_sets = <<>>
    /\ cfg_got = NotMade

\* Config.__init__ with _load_config: a missing file is created with the
\* defaults; a file that cannot be read or parsed gives the defaults; else
\* the file's content with the missing default keys added
Config_init ==
    /\ cfg_pc = "start"
    /\ cfg_pc' = "loaded"
    /\ IF ~cfg_file.exists
       THEN /\ cfg_file' = [exists |-> TRUE, valid |-> TRUE,
                            content |-> defaults]
            /\ cfg_config' = defaults
       ELSE /\ cfg_config' = IF cfg_file.valid
                             THEN WithDefaults(cfg_file.content)
                             ELSE defaults
            /\ UNCHANGED cfg_file
    /\ UNCHANGED <<cfg_client, cfg_manager, cfg_ttl, cfg_sets, cfg_got>>
    /\ UNCHANGED not_cfg

\* AWSClient.__init__: the attributes are set to 1000, 20, 5, 1, True and
\* _load_settings() then reads four of them from the configuration
AWSClient_init ==
    /\ cfg_pc = "loaded"
    /\ cfg_client' =
          [made |-> TRUE,
           page_size |-> get("page_size", 1000),
           max_pages |-> 20,
           max_retries |-> get("max_retries", 5),
           retry_delay |-> get("retry_delay", 1),
           exponential_backoff |-> get("exponential_backoff", 1)]
    /\ UNCHANGED <<cfg_file, cfg_pc, cfg_config, cfg_manager, cfg_ttl,
                   cfg_sets, cfg_got>>
    /\ UNCHANGED not_cfg

\* WorkerManager.__init__ as MainWindow calls it, without an argument:
\* self.max_concurrent = None or config.get('max_concurrent_operations', 5)
WorkerManager_init ==
    /\ cfg_pc = "loaded"
    /\ cfg_manager' =
          [made |-> TRUE,
           max_concurrent |-> get("max_concurrent_operations", 5)]
    /\ UNCHANGED <<cfg_file, cfg_pc, cfg_config, cfg_client, cfg_ttl,
                   cfg_sets, cfg_got>>
    /\ UNCHANGED not_cfg

\* OperationsWindow.complete_operation reads the TTL each time it runs:
\* auto_remove_after = config.get('completed_operations_ttl', 0)
read_ttl ==
    /\ cfg_pc = "loaded"
    /\ cfg_ttl' = [made |-> TRUE,
                   auto_remove_after |-> get("completed_operations_ttl", 0)]
    /\ UNCHANGED <<cfg_file, cfg_pc, cfg_config, cfg_client, cfg_manager,
                   cfg_sets, cfg_got>>
    /\ UNCHANGED not_cfg

\* Config.set(key, value): self.config[key] = value, then save_config()
\* writes the whole dict to config.json (the write is taken to succeed)
Config_set(key, value) ==
    /\ cfg_pc = "loaded"
    /\ Len(cfg_sets) < MaxSets
    /\ cfg_config' = DictSet(cfg_config, key, value)
    /\ cfg_file' = [exists |-> TRUE, valid |-> TRUE, content |-> cfg_config']
    /\ cfg_sets' = Append(cfg_sets, [key |-> key, value |-> value])
    /\ UNCHANGED <<cfg_pc, cfg_client, cfg_manager, cfg_ttl, cfg_got>>
    /\ UNCHANGED not_cfg

\* a caller's Config.get(key, default)
Config_get(key, default) ==
    /\ cfg_pc = "loaded"
    /\ cfg_got' = [made |-> TRUE, key |-> key, default |-> default,
                   value |-> get(key, default)]
    /\ UNCHANGED <<cfg_file, cfg_pc, cfg_config, cfg_client, cfg_manager,
                   cfg_ttl, cfg_sets>>
    /\ UNCHANGED not_cfg

\* The program ends and is started again: Config._instance is None and the
\* next get_instance() constructs a Config from config.json
restart ==
    /\ cfg_pc = "loaded"
    /\ cfg_sets # <<>>
    /\ cfg_pc' = "start"
    /\ cfg_config' = EmptyDict
    /\ cfg_got' = NotMade
    /\ UNCHANGED <<cfg_file, cfg_client, cfg_manager, cfg_ttl, cfg_sets>>
    /\ UNCHANGED not_cfg

\* the keys and values of the calls of set and get
SetKeys == {"page_size", "max_concurrent_operations", OtherKey}

SetValues == {0, 7}

GetDefaults == {NoneValue, 9}

\* config.json before the program starts, for the calls of set and get
SetFiles ==
    {f \in ConfigFiles : DOMAIN f.content \subseteq SetKeys}

ConfigSetInit ==
    /\ ConfigInit
    /\ cfg_file \in SetFiles

ConfigSetSpecInit ==
    RetryIdle /\ OpsIdle /\ XferIdle /\ DirIdle /\ DelIdle /\ ListIdle
        /\ MapIdle /\ MoreIdle /\ ConfigSetInit

ConfigSetNext ==
    \/ Config_init
    \/ \E key \in SetKeys, value \in SetValues : Config_set(key, value)
    \/ \E key \in SetKeys, default \in GetDefaults : Config_get(key, default)
    \/ restart

ConfigSetSpec == ConfigSetSpecInit /\ [][ConfigSetNext]_vars

ConfigSpecInit ==
    RetryIdle /\ OpsIdle /\ XferIdle /\ DirIdle /\ DelIdle /\ ListIdle
        /\ MapIdle /\ MoreIdle /\ ConfigInit

ConfigNext ==
    \/ Config_init
    \/ AWSClient_init
    \/ WorkerManager_init
    \/ read_ttl

ConfigSpec == ConfigSpecInit /\ [][ConfigNext]_vars

(***************************************************************************)
(* The threads that use WorkerManager.active_workers. The main thread runs *)
(* the handlers of the user interface and every slot queued for it, one    *)
(* after another; each worker runs on a thread of the pool and emits its   *)
(* terminal signal there. A method that uses the map twice (the test       *)
(* `worker_id in self.active_workers`, then the read or the del) is two    *)
(* steps, so that another thread's step can fall between them.             *)
(***************************************************************************)
\* the main thread; the pool thread of worker i is i
MainThread == 0

Threads == {MainThread} \cup Ids

\* at: the method the thread is inside; id: the worker_id it has tested;
\* keys: what is left of the list(self.active_workers.keys()) it iterates
IdleThread == [at |-> "idle", id |-> 0, keys |-> {}]

\* where a thread is after one pass of the loop of cancel_all_workers, or
\* after a cancel_worker called on its own
AfterCancel(keys) ==
    IF keys = {} THEN IdleThread
    ELSE [at |-> "cancel_all_workers", id |-> 0, keys |-> keys]

EmittingThread(i) == i

\* worker.signals.finished.connect(lambda ...) in start_worker, called on
\* the main thread for a signals object created on the main thread: the
\* slot is queued for the thread the signals object lives in
SlotThread(i) == MainThread

\* the slot invocations pending for thread t, oldest first
PendingFor(t) == SelectSeq(m_pending, LAMBDA e : e.thread = t)

\* m_pending without its oldest entry for thread t
WithoutFirstFor(t) ==
    LET n == CHOOSE n \in DOMAIN m_pending :
                 /\ m_pending[n].thread = t
                 /\ \A k \in 1..(n - 1) : m_pending[k].thread # t
    IN [k \in 1..(Len(m_pending) - 1) |->
           IF k < n THEN m_pending[k] ELSE m_pending[k + 1]]

MapInit ==
    /\ m_map = {}
    /\ m_worker = [i \in Ids |-> [at |-> "none", is_cancelled |-> FALSE]]
    /\ m_pending = <<>>
    /\ m_pc = [t \in Threads |-> IdleThread]

\* A handler of MainWindow calls start_worker(worker, i):
\* self.active_workers[worker_id] = worker, the two connect calls,
\* thread_pool.start(worker)
start_worker(i) ==
    /\ m_pc[MainThread] = IdleThread
    /\ m_worker[i].at = "none"
    /\ m_map' = m_map \cup {i}
    /\ m_worker' = [m_worker EXCEPT ![i].at = "pooled"]
    /\ UNCHANGED <<m_pending, m_pc>>
    /\ UNCHANGED not_map

\* handle_operation_cancel calls cancel_worker(i):
\* if worker_id in self.active_workers, else return False
cancel_worker_test(i) ==
    /\ m_pc[MainThread] = IdleThread
    /\ m_worker[i].at # "none"
    /\ m_pc' = [m_pc EXCEPT ![MainThread] =
                   IF i \in m_map
                   THEN [at |-> "cancel_worker", id |-> i, keys |-> {}]
                   ELSE IdleThread]
    /\ UNCHANGED <<m_map, m_worker, m_pending>>
    /\ UNCHANGED not_map

\* cancel_worker: worker = self.active_workers[worker_id] (KeyError when
\* the key is gone), worker.cancel(), return True
cancel_worker_read ==
    /\ m_pc[MainThread].at = "cancel_worker"
    /\ m_worker' = [m_worker EXCEPT ![m_pc[MainThread].id].is_cancelled = TRUE]
    /\ m_pc' = [m_pc EXCEPT ![MainThread] = AfterCancel(m_pc[MainThread].keys)]
    /\ UNCHANGED <<m_map, m_pending>>
    /\ UNCHANGED not_map

\* The main thread calls cancel_all_workers:
\* list(self.active_workers.keys())
cancel_all_workers ==
    /\ m_pc[MainThread] = IdleThread
    /\ m_map # {}
    /\ m_pc' = [m_pc EXCEPT ![MainThread] = AfterCancel(m_map)]
    /\ UNCHANGED <<m_map, m_worker, m_pending>>
    /\ UNCHANGED not_map

\* cancel_all_workers: the next worker_id of the list, and the test of the
\* cancel_worker it calls
cancel_all_workers_test(i) ==
    /\ m_pc[MainThread].at = "cancel_all_workers"
    /\ i \in m_pc[MainThread].keys
    /\ LET rest == m_pc[MainThread].keys \ {i}
       IN m_pc' = [m_pc EXCEPT ![MainThread] =
                      IF i \in m_map
                      THEN [at |-> "cancel_worker", id |-> i, keys |-> rest]
                      ELSE AfterCancel(rest)]
    /\ UNCHANGED <<m_map, m_worker, m_pending>>
    /\ UNCHANGED not_map

\* run() of worker i, on its pool thread, emits signals.finished or
\* signals.error: the connected lambda is to run on SlotThread(i)
worker_emit(i) ==
    /\ m_worker[i].at = "pooled"
    /\ m_worker' = [m_worker EXCEPT ![i].at = "emitted"]
    /\ m_pending' = Append(m_pending, [thread |-> SlotThread(i), id |-> i])
    /\ UNCHANGED <<m_map, m_pc>>
    /\ UNCHANGED not_map

\* run() of worker i sees is_cancelled() and returns: no signal is emitted
worker_return(i) ==
    /\ m_worker[i].at = "pooled"
    /\ m_worker[i].is_cancelled
    /\ m_worker' = [m_worker EXCEPT ![i].at = "returned"]
    /\ UNCHANGED <<m_map, m_pending, m_pc>>
    /\ UNCHANGED not_map

\* Thread t takes its oldest pending slot invocation: _cleanup_worker(i)
\* begins with if worker_id in self.active_workers
cleanup_worker_test(t) ==
    /\ m_pc[t] = IdleThread
    /\ PendingFor(t) # <<>>
    /\ LET i == PendingFor(t)[1].id
       IN m_pc' = [m_pc EXCEPT ![t] =
                      IF i \in m_map
                      THEN [at |-> "_cleanup_worker", id |-> i, keys |-> {}]
                      ELSE IdleThread]
    /\ m_pending' = WithoutFirstFor(t)
    /\ UNCHANGED <<m_map, m_worker>>
    /\ UNCHANGED not_map

\* _cleanup_worker: del self.active_workers[worker_id]
cleanup_worker_del(t) ==
    /\ m_pc[t].at = "_cleanup_worker"
    /\ m_map' = m_map \ {m_pc[t].id}
    /\ m_pc' = [m_pc EXCEPT ![t] = IdleThread]
    /\ UNCHANGED <<m_worker, m_pending>>
    /\ UNCHANGED not_map

MapSpecInit ==
    RetryIdle /\ OpsIdle /\ XferIdle /\ DirIdle /\ DelIdle /\ ListIdle
        /\ CfgIdle /\ MapInit /\ MoreIdle

MapNext ==
    \/ \E i \in Ids : start_worker(i)
    \/ \E i \in Ids : cancel_worker_test(i)
    \/ cancel_worker_read
    \/ cancel_all_workers
    \/ \E i \in Ids : cancel_all_workers_test(i)
    \/ \E i \in Ids : worker_emit(i)
    \/ \E i \in Ids : worker_return(i)
    \/ \E t \in Threads : cleanup_worker_test(t)
    \/ \E t \in Threads : cleanup_worker_del(t)

MapSpec == MapSpecInit /\ [][MapNext]_vars

(***************************************************************************)
(* AWSClient authentication: access key, named profile, SSO device flow.   *)
(* A session and the client made from it are named by the credentials      *)
(* they carry.                                                             *)
(***************************************************************************)
ExistingProfiles == {"a", "b"}

Profiles == ExistingProfiles \cup {"missing"}

\* a call has ended: no authenticate_* frame is on the stack
AuthDone == a_pc \in {"idle", "returned", "raised"}

AuthEnter(method, arg) ==
    /\ AuthDone
    /\ a_call' = [method |-> method, arg |-> arg]
    /\ a_before' = [current_profile |-> a_current_profile,
                    s3_client |-> a_s3_client]
    /\ a_result' = "None"
    /\ a_sso_completed' = <<>>

\* authenticate_with_access_key up to the credential test
authenticate_with_access_key ==
    /\ AuthEnter("access_key", "None")
    /\ a_session' = "key"
    /\ a_s3_client' = "key"
    /\ a_pc' = "test"
    /\ UNCHANGED <<a_current_profile, a_sso_timer, a_sso_auth_data, a_elapsed>>
    /\ UNCHANGED not_auth

\* authenticate_with_profile up to the credential test; boto3.Session raises
\* ProfileNotFound for a profile that is not configured
authenticate_with_profile(p) ==
    /\ AuthEnter("profile", p)
    /\ IF p \in ExistingProfiles
         THEN /\ a_session' = p
              /\ a_s3_client' = p
              /\ a_current_profile' = p
              /\ a_pc' = "test"
         ELSE /\ a_pc' = "raised"
              /\ UNCHANGED <<a_session, a_s3_client, a_current_profile>>
    /\ UNCHANGED <<a_sso_timer, a_sso_auth_data, a_elapsed>>
    /\ UNCHANGED not_auth

\* _execute_with_retry(self.s3_client.list_buckets) returns or raises
test_credentials(ok) ==
    /\ a_pc = "test"
    /\ IF ok
         THEN a_pc' = "returned" /\ a_result' = "True"
         ELSE a_pc' = "raised" /\ a_result' = "None"
    /\ UNCHANGED <<a_session, a_s3_client, a_current_profile, a_call, a_before,
                   a_sso_timer, a_sso_auth_data, a_sso_completed, a_elapsed>>
    /\ UNCHANGED not_auth

\* authenticate_with_sso up to loop.exec(); registered = FALSE when
\* register_client or start_device_authorization raises
authenticate_with_sso(registered) ==
    /\ AuthEnter("sso", "None")
    /\ a_session' = "region"
    /\ IF registered
         THEN /\ a_sso_auth_data' = TRUE
              /\ a_sso_timer' = TRUE
              /\ a_elapsed' = 0
              /\ a_pc' = "loop"
         ELSE /\ a_pc' = "returned"
              /\ UNCHANGED <<a_sso_timer, a_sso_auth_data, a_elapsed>>
    /\ a_result' = IF registered THEN "None" ELSE "False"
    /\ a_sso_completed' = IF registered THEN <<>> ELSE <<"False">>
    /\ UNCHANGED <<a_s3_client, a_current_profile>>
    /\ UNCHANGED not_auth

PollOutcomes == {"token", "unverified", "pending", "error"}

\* the except branch of _poll_sso_token
PollFailed ==
    /\ a_sso_timer' = FALSE
    /\ a_sso_auth_data' = FALSE
    /\ a_sso_completed' = Append(a_sso_completed, "False")

\* one timeout of _sso_timer: _poll_sso_token
poll_sso_token(outcome) ==
    /\ a_sso_timer
    /\ a_sso_auth_data
    /\ CASE outcome = "token" ->
              /\ a_session' = "sso"
              /\ a_s3_client' = "sso"
              /\ a_sso_timer' = FALSE
              /\ a_sso_auth_data' = FALSE
              /\ a_sso_completed' = Append(a_sso_completed, "True")
              /\ UNCHANGED a_elapsed
         [] outcome = "unverified" ->
              /\ a_session' = "sso"
              /\ a_s3_client' = "sso"
              /\ PollFailed
              /\ UNCHANGED a_elapsed
         [] outcome = "pending" ->
              IF a_elapsed > ExpiresIn
                THEN /\ PollFailed
                     /\ UNCHANGED <<a_session, a_s3_client, a_elapsed>>
                ELSE /\ a_elapsed' = a_elapsed + 1
                     /\ UNCHANGED <<a_session, a_s3_client, a_sso_timer,
                                    a_sso_auth_data, a_sso_completed>>
         [] outcome = "error" ->
              /\ PollFailed
              /\ UNCHANGED <<a_session, a_s3_client, a_elapsed>>
    /\ UNCHANGED <<a_current_profile, a_pc, a_call, a_before, a_result>>
    /\ UNCHANGED not_auth

\* sso_completed ran loop.quit: loop.exec() returns and authenticate_with_sso
\* executes the statement after it
sso_loop_exit ==
    /\ a_pc = "loop"
    /\ a_sso_completed # <<>>
    /\ a_pc' = "returned"
    /\ a_result' = "True"
    /\ UNCHANGED <<a_session, a_s3_client, a_current_profile, a_call, a_before,
                   a_sso_timer, a_sso_auth_data, a_sso_completed, a_elapsed>>
    /\ UNCHANGED not_auth

AuthSpecInit ==
    RetryIdle /\ OpsIdle /\ XferIdle /\ DirIdle /\ DelIdle /\ ListIdle
        /\ CfgIdle /\ MapIdle /\ PreIdle /\ PurgeIdle /\ RowIdle /\ AuthIdle

AuthNext ==
    \/ authenticate_with_access_key
    \/ \E p \in Profiles : authenticate_with_profile(p)
    \/ \E ok \in BOOLEAN : test_credentials(ok)
    \/ \E registered \in BOOLEAN : authenticate_with_sso(registered)
    \/ \E outcome \in PollOutcomes : poll_sso_token(outcome)
    \/ sso_loop_exit

AuthSpec == AuthSpecInit /\ [][AuthNext]_vars

(***************************************************************************)
(* Properties of _execute_with_retry.                                      *)
(***************************************************************************)
Transient(o) ==
    \/ o.type = "ClientError" /\ o.code \in RetryableCodes
    \/ o.type \in {"ConnectionError", "TimeoutError"}

Fatal(o) == o.type = "ClientError" /\ o.code \notin RetryableCodes

AllTransient == \A i \in 1..Len(outcomes) : Transient(outcomes[i])

Exhausted == rpc = "raised" /\ AllTransient /\ outcomes # <<>>

\* C1: the delay slept after the N-th transient failure, which is the delay
\* before the N-th retry, is retry_delay * 2^(N-1) with exponential backoff
\* and retry_delay without it; func is invoked at most max_retries + 1 times.
C1_RetryDelays ==
    /\ \A n \in 1..Len(sleeps) :
          sleeps[n] = IF exponential_backoff
                      THEN retry_delay * (2 ^ (n - 1))
                      ELSE retry_delay
    /\ Len(outcomes) <= max_retries + 1
    /\ rpc = "loop" => Len(sleeps) = Len(outcomes)

C1_Witness ==
    /\ exponential_backoff
    /\ retry_delay = 2
    /\ Len(sleeps) >= 3
    /\ Len(outcomes) = max_retries + 1

\* C2: a ClientError whose code is not in the transient set is surfaced at
\* once: it is the last invocation of func, the executor has raised it, and
\* no sleep follows it (every sleep belongs to an earlier transient failure).
C2_FatalSurfacesImmediately ==
    \A i \in 1..Len(outcomes) :
        Fatal(outcomes[i]) =>
            /\ i = Len(outcomes)
            /\ rpc = "raised"
            /\ raised.code = outcomes[i].code
            /\ raised.message = i
            /\ Len(sleeps) = i - 1

C2_Witness ==
    /\ rpc = "raised"
    /\ Len(outcomes) >= 2
    /\ Fatal(outcomes[Len(outcomes)])
    /\ outcomes[Len(outcomes)].code = "AccessDenied"

\* C3: after k <= max_retries transient failures the executor is still
\* trying (no error is visible), and when the next attempt succeeds the call
\* returns the value of that attempt.
C3_SuccessAfterTransient ==
    /\ (AllTransient /\ Len(outcomes) <= max_retries) =>
           (rpc \in {"loop", "sleep"} /\ raised = None)
    /\ (outcomes # <<>> /\ outcomes[Len(outcomes)].type = "ok") =>
           (rpc = "returned" /\ returned = Len(outcomes) /\ raised = None)

C3_Witness ==
    /\ rpc = "returned"
    /\ max_retries >= 2
    /\ Len(outcomes) = max_retries + 1
    /\ returned = max_retries + 1

\* C4 as claimed: when all max_retries + 1 attempts fail with transient
\* errors, the error raised is the one of the last attempt and carries the
\* attempt count and the operation name.
C4_Original ==
    Exhausted =>
        /\ raised.message = Len(outcomes)
        /\ raised.operation = operation_name
        /\ "attempts" \in DOMAIN raised
        /\ raised.attempts = Len(outcomes)

\* C4 amended: when all max_retries + 1 attempts fail with transient errors,
\* the error raised is the classified error of the last attempt (its message
\* and code) with the operation name; AWSError has no attempt-count field.
C4_ExhaustedRaisesLast ==
    Exhausted =>
        /\ Len(outcomes) = max_retries + 1
        /\ raised.message = Len(outcomes)
        /\ raised.code = outcomes[Len(outcomes)].code
        /\ raised.operation = operation_name
        /\ DOMAIN raised = {"message", "code", "operation", "details"}

C4_Witness ==
    /\ Exhausted
    /\ max_retries >= 2
    /\ outcomes[1].code # outcomes[Len(outcomes)].code


(***************************************************************************)
(* Properties of the worker pool and of the operations window.             *)
(***************************************************************************)
ActiveOperations == {i \in DOMAIN operations : operations[i].state = "active"}

Quiescent == Running = {} /\ Queued = {} /\ signal_queue = <<>>

C6_Original == \A i \in Ids : wpc[i] # "returned"

\* C7 as claimed: an operation whose cancellation was requested reaches the
\* terminal state Cancelled: once its worker has ended and nothing is left
\* to run or to deliver, its state is 'cancelled'.
C7_Original ==
    \A i \in DOMAIN operations :
        (is_cancelled[i] /\ i \in Ended /\ Quiescent) =>
            operations[i].state = "cancelled"

\* C8 as claimed: once an operation's state is completed or failed, no
\* later completion notice, progress update or cancel request changes it.
C8_Original ==
    [][\A i \in DOMAIN operations :
           (/\ operations[i].state \in {"completed", "failed"}
            /\ i \in DOMAIN operations') =>
               operations'[i].state = operations[i].state]_vars

\* C9: a cancel request for an operation whose state is 'completed' returns
\* without a true result, sets no worker's cancellation flag and not the
\* client's stop event, and leaves every operation, the state 'completed'
\* of the named one included, as it was.
C9_CancelCompletedNoOp ==
    [][\A i \in DOMAIN operations :
           (cancel_returned'.id = i /\ operations[i].state = "completed") =>
               /\ cancel_returned'.result \in {"None", "False"}
               /\ UNCHANGED <<is_cancelled, download_stop, operations,
                              operation_counters, active_workers, wpc,
                              signal_queue>>]_vars

C9_Witness ==
    \E i \in DOMAIN operations :
        /\ cancel_returned.id = i
        /\ cancel_returned.result = "None"
        /\ operations[i].state = "completed"
        /\ i \in active_workers
        /\ wpc[i] \in {"queued", "running", "transfer"}
        /\ ~is_cancelled[i]

\* C10 as claimed: a download that was not itself cancelled and met no
\* error ends with a finished event and its complete file, whatever is
\* cancelled beside it; and no step clears the client's stop event while
\* a cancelled download is still inside its transfer.
C10_Original ==
    [][/\ \A j \in Ids :
             (j \in Ended' /\ wpc'[j] # "failed" /\ ~is_cancelled'[j]) =>
                 (wpc'[j] = "finished" /\ file'[j] = "complete")
       /\ (download_stop /\ ~download_stop') =>
             ~\E i \in Ids : is_cancelled[i] /\ wpc[i] = "transfer"
      ]_vars

C12_Original ==
    t_false_at # -1 => (t_sent = t_false_at /\ t_success # "True")

\* C13: the progress values a worker emits never decrease and lie in
\* 0..100; every value emitted before the client call has returned is at
\* most 99; 100 is emitted once, last, and only by a worker whose transfer
\* returned True and that ends with finished -- never by one that
\* returned silently (cancelled, or download_file returned False) or
\* emitted error.
C13_ProgressMonotone ==
    /\ \A n \in 1..Len(emitted) :
          /\ emitted[n] \in 0..100
          /\ n > 1 => emitted[n - 1] <= emitted[n]
          /\ emitted[n] = 100 =>
                (n = Len(emitted) /\ t_pc = "finished" /\ t_success = "True")
    /\ t_pc = "finished" => (emitted # <<>> /\ emitted[Len(emitted)] = 100)

C13_Witness ==
    /\ t_pc = "finished"
    /\ Len(emitted) >= 5
    /\ emitted[3] \in 1..98
    /\ emitted[Len(emitted)] = 100

(***************************************************************************)
(* Properties of a directory transfer.                                     *)
(***************************************************************************)
\* C14 as claimed: a directory upload that ends with finished (no failure,
\* no cancellation) has uploaded_files = total_files and uploaded_size =
\* total_size.
C14_Original ==
    (d_kind = "upload" /\ d_pc = "finished") =>
        (d_done_files = d_total_files /\ d_done_size = d_total_size)

\* C15: once the transfer of an entry has raised, the worker has emitted
\* one error signal, naming that entry, has ended, and has started the
\* transfer of no entry after it.
C15_FailFast ==
    d_failed # 0 =>
        /\ d_pc = "error"
        /\ d_errors = <<d_failed>>
        /\ \A n \in d_started : n <= d_failed

C15_Witness ==
    /\ d_pc = "error"
    /\ d_failed = 2
    /\ d_status[1] = "complete"
    /\ Len(d_items) = 3
    /\ d_items[3].kind = "file"
    /\ 3 \notin d_started

\* C16: once a call of is_cancelled() has returned True the worker has
\* ended without a terminal signal and starts no further transfer; and no
\* step removes or changes a copy that was complete.
C16_CancelMidTree ==
    [][/\ d_observed' => (d_pc' = "returned" /\ d_started' \subseteq d_started)
       /\ \A n \in DOMAIN d_status :
              d_status[n] = "complete" => d_status'[n] = "complete"
      ]_vars

C16_Witness ==
    /\ Len(d_items) >= 2
    /\ d_observed
    /\ d_pc = "returned"
    /\ d_status[1] = "complete"
    /\ d_idx = 2
    /\ d_items[2].kind = "file"
    /\ d_started = {1}

(***************************************************************************)
(* Properties of a directory delete.                                       *)
(***************************************************************************)
Ceil(a, b) == (a + b - 1) \div b

\* C17: the n-th delete call carries the keys at positions
\* 1000(n-1)+1 .. min(1000n, K) of the listing, so at most 1000 keys, in
\* listing order; a delete that finishes has issued ceil(K/1000) calls and
\* counts K deleted; when the call of batch j raises, the worker has
\* emitted one error signal and ended, batch j is the last one issued, and
\* deleted_objects is the number of keys of the batches before j.
C17_BatchDelete ==
    /\ \A n \in 1..Len(del_calls) :
          /\ del_calls[n].first = 1000 * (n - 1) + 1
          /\ del_calls[n].last = Min2(1000 * n, del_keys)
          /\ del_calls[n].last - del_calls[n].first + 1 \in 1..1000
    /\ Len(del_calls) <= Ceil(del_keys, 1000)
    /\ del_pc = "finished" =>
          (Len(del_calls) = Ceil(del_keys, 1000) /\ del_deleted = del_keys)
    /\ del_failed # 0 =>
          /\ del_pc = "error"
          /\ del_errors = 1
          /\ Len(del_calls) = del_failed
          /\ del_deleted = 1000 * (del_failed - 1)

C17_Witness ==
    /\ del_keys = 2500
    /\ del_failed = 2
    /\ Len(del_calls) = 2
    /\ del_deleted = 1000
    /\ del_pc = "error"

C19_SequentialBounded ==
    /\ Len(l_requests) = l_page_count
    /\ Len(l_requests) <= l_max_pages
    /\ Len(l_requests) - Len(l_returned) = IF l_pc \in {"wait", "raised"}
                                           THEN 1 ELSE 0
    /\ \A n \in 1..Len(l_requests) :
          l_requests[n] = IF n = 1 THEN "absent" ELSE l_returned[n - 1]

C19_Witness ==
    /\ l_pc = "returned"
    /\ l_max_pages = 3
    /\ Len(l_requests) = 3
    /\ \A n \in 1..3 : l_returned[n] # "None"
    /\ Len(l_all_objects) < l_keys

C20_TimerInvariant ==
    /\ completed_timers \subseteq Terminal
    /\ completed_operations_ttl > 0 => Terminal \subseteq completed_timers
    /\ completed_operations_ttl = 0 =>
          /\ completed_timers = {}
          /\ \A i \in Ids : removed[i] # "timer"
    /\ \A i \in Ids :
          /\ removed[i] = "auto_cleanup" =>
                operations_auto_cleanup > 0 /\ auto_cleanup_enabled
          /\ removed[i] # "no" => i \notin DOMAIN operations

DocumentedDefault ==
    [page_size |-> 1000, max_pages |-> 20, max_retries |-> 5,
     retry_delay |-> 1, exponential_backoff |-> 1,
     max_concurrent_operations |-> 5]

\* what the claim lets a parameter be: the option's value when config.json
\* holds the option, else the documented default (any value for the TTL,
\* for which the claim names no default)
Determined(option, parameter) ==
    IF cfg_file.valid /\ option \in DOMAIN cfg_file.content
    THEN parameter = cfg_file.content[option]
    ELSE option \in DOMAIN DocumentedDefault =>
            parameter = DocumentedDefault[option]

\* C22 as claimed: each of the seven runtime parameters has the value of
\* its option when the configuration holds the option, and the documented
\* default (1000, 20, 5, 1, true, 5) when it does not.
C22_Original ==
    /\ cfg_client.made =>
          /\ Determined("page_size", cfg_client.page_size)
          /\ Determined("max_pages", cfg_client.max_pages)
          /\ Determined("max_retries", cfg_client.max_retries)
          /\ Determined("retry_delay", cfg_client.retry_delay)
          /\ Determined("exponential_backoff", cfg_client.exponential_backoff)
    /\ cfg_manager.made =>
          Determined("max_concurrent_operations", cfg_manager.max_concurrent)
    /\ cfg_ttl.made =>
          Determined("completed_operations_ttl", cfg_ttl.auto_remove_after)

\* the calls of set made for key so far
SetsOf(key) == {n \in DOMAIN cfg_sets : cfg_sets[n].key = key}

\* the value of the last call of set for key
LastSet(key) ==
    cfg_sets[CHOOSE n \in SetsOf(key) : \A m \in SetsOf(key) : m <= n].value

InsideMap == {t \in Threads : m_pc[t] # IdleThread}

\* C24: at most one thread is inside a method of the map at any moment,
\* and no thread uses the map (registers, tests, reads or removes a key)
\* while another thread is inside such a method; so a key found by the
\* test of cancel_worker or _cleanup_worker is still there when the method
\* reads or removes it, and the keys listed by cancel_all_workers are still
\* there when it comes to them.
C24_MapExclusive ==
    [][/\ Cardinality(InsideMap') <= 1
       /\ \A t \in Threads :
             (m_pc'[t] # m_pc[t] \/ (t = MainThread /\ m_map' # m_map)) =>
                 InsideMap \subseteq {t}
       /\ \A t \in InsideMap' :
             /\ m_pc'[t].at # "cancel_all_workers" => m_pc'[t].id \in m_map'
             /\ m_pc'[t].keys \subseteq m_map'
      ]_vars

C24_Witness ==
    /\ m_pc[MainThread] = [at |-> "cancel_worker", id |-> 1, keys |-> {2}]
    /\ m_worker[1].at = "emitted"
    /\ PendingFor(MainThread) # <<>>
    /\ PendingFor(MainThread)[1].id = 1
    /\ m_worker[2].at = "pooled"

(***************************************************************************)
(* Properties of cancellation during the retry backoff.                    *)
(***************************************************************************)
\* C25: when cancel() was called while _execute_with_retry was sleeping
\* before a retry, func is not invoked again: the number of invocations
\* stays what it was when cancel() was called.
C25_Original ==
    del_cancel_at.rpc = "sleep" => Len(outcomes) = del_cancel_at.attempts

(***************************************************************************)
(* Properties of the progress of directory transfers.                      *)
(***************************************************************************)
\* C26: the percentages a directory upload or download emits never
\* decrease, from the first signals.progress to the last.
C26_Original == [][d_progress' >= d_progress]_vars

\* C27: while a directory upload or download has not completed, the
\* percentage it has emitted is below 100; 100 is emitted only when the
\* whole operation has completed.
C27_Original == d_progress >= 100 => d_pc = "finished"

(***************************************************************************)
(* Properties of the byte counts of transfers.                             *)
(***************************************************************************)
\* C28: in a single-file upload or download the bytes the worker has
\* counted (uploaded_bytes, downloaded_bytes) never exceed file_size.
C28_Original == w_bytes <= t_file_size

C30_Original ==
    l_pc = "returned" =>
        /\ \A n \in 1..Len(l_all_objects) : KeyAt(l_all_objects[n]) # Prefix
        /\ \A n \in 1..Len(l_all_prefixes) : l_all_prefixes[n] # Prefix

(***************************************************************************)
(* Properties of what a directory upload leaves in the bucket.             *)
(***************************************************************************)
\* C31: when a directory upload has completed, a directory-marker object
\* has been created in the bucket for every empty directory of the tree.
C31_Original ==
    (d_kind = "upload" /\ d_pc = "finished") =>
        \A n \in 1..Len(d_items) :
            d_items[n].kind = "emptydir" => d_status[n] # "none"

(***************************************************************************)
(* Properties of the delivery of terminal signals to the operations        *)
(* window.                                                                 *)
(***************************************************************************)
\* C32: when the finished or error signal of worker i is delivered, the
\* operation i, and no other operation, changes: it becomes completed or
\* failed, and every other operation stays as it was.
C32_Original ==
    [][(signal_queue # <<>> /\ signal_queue' = Tail(signal_queue)) =>
          LET i == Head(signal_queue).id
          IN /\ \A j \in DOMAIN operations :
                   j # i => operations'[j] = operations[j]
             /\ i \in DOMAIN operations' =>
                   operations'[i].state \in {"completed", "failed"}
      ]_vars

(***************************************************************************)
(* Properties of the WorkerManager registry at the end of workers.         *)
(***************************************************************************)
\* C33: a worker whose run() has returned is eventually removed from
\* active_workers; so once no worker is queued or running and no signal
\* is left to deliver, no ended worker is registered and
\* get_active_workers() is 0.
C33_Original ==
    Quiescent =>
        /\ active_workers \cap Ended = {}
        /\ Cardinality(active_workers) = 0

\* C34: authenticate_with_profile(p) commits only on success: after it
\* returned True current_profile is p, and after it raised current_profile and
\* the active S3 client are the ones from before the call.
C34_Original ==
    a_call.method = "profile" =>
        /\ a_pc = "returned" => a_current_profile = a_call.arg
        /\ a_pc = "raised" =>
              /\ a_current_profile = a_before.current_profile
              /\ a_s3_client = a_before.s3_client

C35_Original ==
    /\ operation_counters.active >= 0
    /\ operation_counters.active =
          Cardinality({i \in DOMAIN operations :
                          operations[i].state = "active"})

\* C36: a call that exhausts its retry budget (max_retries + 1 invocations,
\* the last one failing with a transient error too) has slept exactly
\* max_retries times when it raises: no sleep follows the final attempt.
C36_Original ==
    (/\ rpc = "raised"
     /\ Len(outcomes) = max_retries + 1
     /\ Transient(outcomes[Len(outcomes)])) =>
        Len(sleeps) = max_retries

\* C37: when download_file fails at the metadata lookup, before any data was
\* written, a file that was at the destination path before the call is left
\* as it was.
C37_Original ==
    [][\A i \in Ids :
          (/\ save_path_existed[i]
           /\ wpc[i] = "running"
           /\ wpc'[i] = "failed") => file'[i] = file[i]]_vars

\* C38: a recursive delete that reports success has issued a delete for
\* every object that was under the prefix at listing time, those beyond the
\* listing page ceiling included.
C38_Original ==
    purge_pc = "finished" => purge_deleted = 1..l_keys

\* C39: the 'row' values of the tracked operations are pairwise distinct,
\* are exactly 0..n-1 for the n tracked operations, and each is the table
\* row that shows its operation.
C39_RowsAreTableRows ==
    LET n == Cardinality(DOMAIN operations)
    IN /\ DOMAIN op_row = DOMAIN operations
       /\ \A i, j \in DOMAIN op_row : i # j => op_row[i] # op_row[j]
       /\ {op_row[i] : i \in DOMAIN op_row} = 0..(n - 1)
       /\ Len(operations_table) = n
       /\ \A i \in DOMAIN op_row :
             /\ op_row[i] + 1 \in 1..Len(operations_table)
             /\ operations_table[op_row[i] + 1] = i

\* operation 1 was removed while operation 2 was in the row below it
C39_Witness ==
    /\ removed[1] # "no"
    /\ 2 \in DOMAIN operations
    /\ op_row[2] = 0
    /\ operations_table = <<2>>
====
